---- MODULE Spec2Model ----
(***************************************************************************)
(* PEN-MATCH: the tiered resolution pipeline (identifier lookup, exact     *)
(* match, fuzzy match) of azure_search/ and the arbitration workflow       *)
(* (fetch -> router -> analyze) of pen_agent/, for one request.            *)
(*                                                                         *)
(* A Python string is a sequence of one-character strings, so that         *)
(* upper(), strip(), slicing and ordering are computed, not assumed.       *)
(* Confidence values are per-mille integers (1000 is 1.0).                 *)
(***************************************************************************)
EXTENDS Integers, Sequences, FiniteSets, TLC

\* ------------------------------------------------------------------------
\* Bounds of the model
\* ------------------------------------------------------------------------
\* how many comparable fields a generated query supplies at most
MaxSupplied == 3
\* the longest review_candidates list the assistant replies with
MaxReview == 6

\* ------------------------------------------------------------------------
\* Strings
\* ------------------------------------------------------------------------
\* Python None, and a key that a dict does not have (dict.get gives None)
None == <<"None">>

\* the characters used, in code-point order
AsciiChars ==
    << " ", "'", "-",
       "0", "1", "2", "3", "4", "5", "6", "7", "8", "9",
       "A", "B", "C", "D", "E", "F", "G", "H", "I", "J", "K", "L", "M",
       "N", "O", "P", "Q", "R", "S", "T", "U", "V", "W", "X", "Y", "Z",
       "a", "b", "c", "d", "e", "f", "g", "h", "i", "j", "k", "l", "m",
       "n", "o", "p", "q", "r", "s", "t", "u", "v", "w", "x", "y", "z" >>

Ord(c) == CHOOSE i \in 1..Len(AsciiChars) : AsciiChars[i] = c

IsDigitChar(c) == Ord(c) >= 4 /\ Ord(c) <= 13

DigitVal(c) == Ord(c) - 4

DigitChar(n) == AsciiChars[n + 4]

\* str.upper() on one character
UpperChar(c) == IF Ord(c) >= 40 THEN AsciiChars[Ord(c) - 26] ELSE c

\* str.upper()
Upper(s) == [i \in 1..Len(s) |-> UpperChar(s[i])]

RECURSIVE LStrip(_)
LStrip(s) == IF s # <<>> /\ Head(s) = " " THEN LStrip(Tail(s)) ELSE s

RECURSIVE RStrip(_)
RStrip(s) == IF s # <<>> /\ s[Len(s)] = " " THEN RStrip(SubSeq(s, 1, Len(s) - 1)) ELSE s

\* str.strip()
Strip(s) == RStrip(LStrip(s))

\* Python truthiness of an Optional[str]
Truthy(v) == v # None /\ v # <<>>

\* s[:n]
Prefix(s, n) == SubSeq(s, 1, IF Len(s) < n THEN Len(s) ELSE n)

\* str.isdigit()
IsDigits(s) == s # <<>> /\ \A i \in 1..Len(s) : IsDigitChar(s[i])

\* str.replace(" ", "")
RECURSIVE NoSpaces(_)
NoSpaces(s) ==
    IF s = <<>> THEN <<>>
    ELSE IF Head(s) = " " THEN NoSpaces(Tail(s))
    ELSE <<Head(s)>> \o NoSpaces(Tail(s))

\* a < b in code-point (ordinal) order
RECURSIVE StrLess(_, _)
StrLess(a, b) ==
    IF b = <<>> THEN FALSE
    ELSE IF a = <<>> THEN TRUE
    ELSE IF Ord(Head(a)) < Ord(Head(b)) THEN TRUE
    ELSE IF Ord(Head(a)) > Ord(Head(b)) THEN FALSE
    ELSE StrLess(Tail(a), Tail(b))

\* the decimal digits of a natural number
RECURSIVE DecStr(_)
DecStr(n) == IF n < 10 THEN <<DigitChar(n)>> ELSE DecStr(n \div 10) \o <<DigitChar(n % 10)>>

\* the number written by a digit string
RECURSIVE DecVal(_)
DecVal(s) == IF s = <<>> THEN 0 ELSE 10 * DecVal(SubSeq(s, 1, Len(s) - 1)) + DigitVal(s[Len(s)])

\* str.zfill(n)
RECURSIVE ZFill(_, _)
ZFill(s, n) == IF Len(s) >= n THEN s ELSE ZFill(<<"0">> \o s, n)

\* ------------------------------------------------------------------------
\* Records of the search index and queries
\* ------------------------------------------------------------------------
\* StudentSearchService._count_matching_fields: compare_fields, in order
compare_fields ==
    << "legalFirstName", "legalMiddleNames", "legalLastName", "dob", "sexCode",
       "postalCode", "mincode", "gradeCode", "localID" >>

\* StudentSearchService.__init__: self._select_fields
select_fields == {"student_id", "pen"} \cup {compare_fields[i] : i \in 1..Len(compare_fields)}

\* the fields of api.main.StudentQuery
StudentQueryFields == {"pen"} \cup {compare_fields[i] : i \in 1..Len(compare_fields)}

\* the keys of the dict the endpoint /analyze hands to the workflow
LegacyKeys ==
    {"givenName", "surname", "middleName", "dob", "localID", "sex", "postal",
     "enrolledGradeCode", "mincode", "pen"}

\* every key some stage of the pipeline reads from a query dict
QueryKeys == StudentQueryFields \cup LegacyKeys \cup {"birthDate"}

NoKeys == [k \in QueryKeys |-> None]

\* the demographic values of the fixture records
FixtureValue ==
    [ legalFirstName   |-> <<"A", "L">>,
      legalMiddleNames |-> None,
      legalLastName    |-> <<"L", "I">>,
      dob              |-> <<"2", "0", "0", "1", "-", "0", "2", "-", "1", "0">>,
      sexCode          |-> <<"M">>,
      postalCode       |-> <<"V", "3", "N", "1", "H", "4">>,
      mincode          |-> <<"0", "5", "7", "5", "7", "0", "7", "9">>,
      gradeCode        |-> <<"1", "0">>,
      localID          |-> <<"7">> ]

\* the second record of a fixture: same names, the other fields differ
FixtureValue2 ==
    [ legalFirstName   |-> <<"A", "L">>,
      legalMiddleNames |-> <<"B">>,
      legalLastName    |-> <<"L", "I">>,
      dob              |-> <<"2", "0", "0", "1", "-", "0", "2", "-", "1", "5">>,
      sexCode          |-> <<"F">>,
      postalCode       |-> <<"V", "3", "N", "4", "H", "1">>,
      mincode          |-> <<"0", "5", "7", "5", "8", "0", "0", "1">>,
      gradeCode        |-> <<"1", "1">>,
      localID          |-> <<"8">> ]

\* the same values written differently: other case, or padded with blanks
VariantValue ==
    [ legalFirstName   |-> <<"a", "l">>,
      legalMiddleNames |-> <<"b">>,
      legalLastName    |-> <<" ", "L", "I">>,
      dob              |-> <<"2", "0", "0", "1", "-", "0", "2", "-", "1", "0", " ">>,
      sexCode          |-> <<"m">>,
      postalCode       |-> <<"v", "3", "n", "1", "h", "4">>,
      mincode          |-> <<"0", "5", "7", "5", "7", "0", "7", "9", " ">>,
      gradeCode        |-> <<" ", "1", "0">>,
      localID          |-> <<"7", " ">> ]

\* values no fixture record has
OtherValue ==
    [ legalFirstName   |-> <<"B", "O">>,
      legalMiddleNames |-> <<"X">>,
      legalLastName    |-> <<"W", "U">>,
      dob              |-> <<"2", "0", "1", "0", "-", "0", "2", "-", "1", "0">>,
      sexCode          |-> <<"X">>,
      postalCode       |-> <<"X", "1", "A", "1", "A", "1">>,
      mincode          |-> <<"0", "3", "5", "3", "5", "0", "3", "3">>,
      gradeCode        |-> <<"0", "9">>,
      localID          |-> <<"9">> ]

\* the identifier of fixture record i, and one that no record has
PenOf(i) == <<"P">> \o DecStr(i)

UnknownPen == <<"P", "X">>

\* fixture record i of an index; with dupPen every record carries PenOf(1)
FixtureRecord(i, dupPen) ==
    LET v == IF i = 2 THEN FixtureValue2 ELSE FixtureValue
    IN  [ f \in select_fields |->
            IF f = "student_id" THEN <<"S">> \o DecStr(i)
            ELSE IF f = "pen" THEN (IF dupPen THEN PenOf(1) ELSE PenOf(i))
            ELSE v[f] ]

FixtureIndex(n, dupPen) == [i \in 1..n |-> FixtureRecord(i, dupPen)]

\* ------------------------------------------------------------------------
\* The search index (external): equality filters, a result cap
\* ------------------------------------------------------------------------
\* a record satisfies field eq 'value'
EqHolds(rec, pred) == rec[pred[1]] # None /\ rec[pred[1]] = pred[2]

RECURSIVE SelectSeq2(_, _)
SelectSeq2(recs, preds) ==
    IF recs = <<>> THEN <<>>
    ELSE (IF \A j \in 1..Len(preds) : EqHolds(Head(recs), preds[j])
          THEN <<Head(recs)>> ELSE <<>>) \o SelectSeq2(Tail(recs), preds)

\* search_client.search(filter = p1 and p2 and ..., top = top)
IndexSearch(idx, preds, top) == Prefix(SelectSeq2(idx, preds), top)

\* ------------------------------------------------------------------------
\* Query Normalizer (api/main.py, api/main_agent.py)
\* ------------------------------------------------------------------------
IsLeap(y) == (y % 4 = 0 /\ y % 100 # 0) \/ y % 400 = 0

DaysIn(y, m) ==
    IF m = 2 THEN (IF IsLeap(y) THEN 29 ELSE 28)
    ELSE IF m \in {4, 6, 9, 11} THEN 30 ELSE 31

\* datetime(y, m, d) exists
ValidDate(y, m, d) == y >= 1 /\ m >= 1 /\ m <= 12 /\ d >= 1 /\ d <= DaysIn(y, m)

\* datetime.strftime("%Y-%m-%d"); glibc writes %Y without padding
FormatDate(y, m, d) ==
    DecStr(y) \o <<"-">> \o ZFill(DecStr(m), 2) \o <<"-">> \o ZFill(DecStr(d), 2)

\* strptime: the month directive, two digits (01..12) or one (1..9)
Month2(s) ==
    /\ Len(s) >= 2
    /\ \/ s[1] = "1" /\ s[2] \in {"0", "1", "2"}
       \/ s[1] = "0" /\ IsDigitChar(s[2]) /\ s[2] # "0"

Month1(s) == Len(s) >= 1 /\ IsDigitChar(s[1]) /\ s[1] # "0"

\* strptime: the day directive 3[0-1]|[1-2]\d|0[1-9]|[1-9]| [1-9]; 0 is no match
DayLen(s) ==
    IF /\ Len(s) >= 2
       /\ \/ s[1] = "3" /\ s[2] \in {"0", "1"}
          \/ s[1] \in {"1", "2"} /\ IsDigitChar(s[2])
          \/ s[1] = "0" /\ IsDigitChar(s[2]) /\ s[2] # "0"
    THEN 2
    ELSE IF Len(s) >= 1 /\ IsDigitChar(s[1]) /\ s[1] # "0" THEN 1
    ELSE IF Len(s) >= 2 /\ s[1] = " " /\ IsDigitChar(s[2]) /\ s[2] # "0" THEN 2
    ELSE 0

\* the rest of s after i characters
Drop(s, i) == SubSeq(s, i + 1, Len(s))

\* after the month: the separator (when dashed) and the day; the unread rest
\* must be empty, else strptime raises "unconverted data remains"
DayPart(r, dashed) ==
    IF dashed THEN (IF r # <<>> /\ r[1] = "-" THEN Drop(r, 1) ELSE <<"x">>) ELSE r

DayMatches(r, dashed) == DayLen(DayPart(r, dashed)) > 0

\* datetime.strptime(s, "%Y-%m-%d") when dashed, else "%Y%m%d":
\* the date as <<y, m, d>>, or <<>> for ValueError
Strptime(s, dashed) ==
    IF Len(s) < 4 \/ ~IsDigits(SubSeq(s, 1, 4)) THEN <<>>
    ELSE LET y  == DecVal(SubSeq(s, 1, 4))
             r0 == Drop(s, 4)
             r  == IF dashed THEN (IF r0 # <<>> /\ r0[1] = "-" THEN Drop(r0, 1) ELSE <<"x">>)
                   ELSE r0
             ml == IF Month2(r) /\ DayMatches(Drop(r, 2), dashed) THEN 2
                   ELSE IF Month1(r) /\ DayMatches(Drop(r, 1), dashed) THEN 1
                   ELSE 0
         IN  IF ml = 0 THEN <<>>
             ELSE LET dp == DayPart(Drop(r, ml), dashed)
                      dl == DayLen(dp)
                      ds == SubSeq(dp, 1, dl)
                      m  == DecVal(SubSeq(r, 1, ml))
                      d  == IF ds[1] = " " THEN DigitVal(ds[2]) ELSE DecVal(ds)
                  IN  IF Len(dp) # dl \/ ~ValidDate(y, m, d) THEN <<>>
                      ELSE <<y, m, d>>

\* api.main.normalize_dob
normalize_dob(dob) ==
    IF ~Truthy(dob) THEN None
    ELSE LET t == Strip(dob)
         IN  IF Len(t) = 8 /\ IsDigits(t)
             THEN LET dt == Strptime(t, FALSE)
                  IN  IF dt # <<>> THEN FormatDate(dt[1], dt[2], dt[3]) ELSE t
             ELSE IF Len(t) = 10 /\ t[5] = "-" /\ t[8] = "-"
             THEN LET dt == Strptime(t, TRUE)
                  IN  IF dt # <<>> THEN FormatDate(dt[1], dt[2], dt[3]) ELSE t
             ELSE t

\* api.main.build_query_dict: canonical keys, empty values dropped
build_query_dict(sq) ==
    [ k \in QueryKeys |->
        IF k \notin StudentQueryFields \/ ~Truthy(sq[k]) THEN None
        ELSE IF k = "dob"
             THEN (IF Truthy(normalize_dob(sq[k])) THEN normalize_dob(sq[k]) ELSE None)
        ELSE sq[k] ]

\* x or ""
OrEmpty(v) == IF Truthy(v) THEN v ELSE <<>>

\* api.main_agent.convert_query_to_legacy_format
convert_query_to_legacy_format(sq) ==
    [ k \in QueryKeys |->
        CASE k = "givenName"         -> sq["legalFirstName"]
          [] k = "surname"           -> sq["legalLastName"]
          [] k = "middleName"        -> OrEmpty(sq["legalMiddleNames"])
          [] k = "dob"               -> OrEmpty(sq["dob"])
          [] k = "localID"           -> OrEmpty(sq["localID"])
          [] k = "sex"               -> OrEmpty(sq["sexCode"])
          [] k = "postal"            -> OrEmpty(sq["postalCode"])
          [] k = "enrolledGradeCode" -> OrEmpty(sq["gradeCode"])
          [] k = "mincode"           -> OrEmpty(sq["mincode"])
          [] k = "pen"               -> OrEmpty(sq["pen"])
          [] OTHER                   -> None ]

\* PenMatchWorkflow._validate_request
ValidRequest(req) == Truthy(req["surname"]) /\ Truthy(req["givenName"])

\* ------------------------------------------------------------------------
\* Exact Resolver (azure_search/azure_search_query.py)
\* ------------------------------------------------------------------------
\* top of the identifier lookup, top of the exact search, largest list returned
PenTop == 2

HardTop == 41

MaxExact == 40

\* _count_matching_fields: a compared field is supplied
Supplied(q, f) == q[f] # None /\ q[f] # <<>>

\* the comparison without the upper-casing
FieldMatchesCaseSensitive(q, rec, f) == rec[f] # None /\ Strip(rec[f]) = Strip(q[f])

\* _count_matching_fields: the record's value equals the query's
FieldMatches(q, rec, f) == rec[f] # None /\ Upper(Strip(rec[f])) = Upper(Strip(q[f]))

SuppliedFields(q) == {i \in 1..Len(compare_fields) : Supplied(q, compare_fields[i])}

\* _count_matching_fields: <<match_count, total_fields>>
count_matching_fields(q, rec) ==
    << Cardinality({i \in SuppliedFields(q) : FieldMatches(q, rec, compare_fields[i])}),
       Cardinality(SuppliedFields(q)) >>

\* search_students: the pen_status of an identifier hit
PenStatusOf(match_count, total_fields) ==
    IF total_fields = 0 \/ match_count = total_fields THEN "AA"
    ELSE IF match_count >= 2 THEN "BM"
    ELSE "F1"

\* _hard_filter_search: the keys it turns into equality predicates, in order
hard_filter_fields ==
    << "pen", "legalFirstName", "legalLastName", "legalMiddleNames", "dob",
       "postalCode", "mincode", "gradeCode", "localID" >>

RECURSIVE HardFilterFrom(_, _)
HardFilterFrom(q, i) ==
    IF i > Len(hard_filter_fields) THEN <<>>
    ELSE (IF Truthy(q[hard_filter_fields[i]])
          THEN << <<hard_filter_fields[i], q[hard_filter_fields[i]]>> >>
          ELSE <<>>) \o HardFilterFrom(q, i + 1)

\* _hard_filter_search: filters
HardFilters(q) == HardFilterFrom(q, 1)

\* the query handed on with its identifier still in it
WithPenKept(q) == q

\* query_no_pen = {k: v for k, v in query_data.items() if k != "pen"}
WithoutPen(q) == [q EXCEPT !["pen"] = None]

\* a dict is truthy when it has a key
NonEmptyDict(q) == \E k \in QueryKeys : q[k] # None

NoResult ==
    [ status |-> "none", pen_status |-> "none", search_type |-> "none",
      results |-> <<>>, count |-> 0, message |-> "none", filters_run |-> <<>>,
      reason |-> "none" ]

\* ------------------------------------------------------------------------
\* Fuzzy Resolver (azure_search/azure_search_fuzzy.py)
\* ------------------------------------------------------------------------
\* neighbours asked of the index, candidates returned
top_k_vector == 150

FuzzyTop == 20

\* a or b or ""
Or3(a, b) == IF Truthy(a) THEN a ELSE IF Truthy(b) THEN b ELSE <<>>

\* generate_embedding: one name part, stripped, "NULL" taken as empty
NamePart(q, k1, k2) ==
    LET v == Strip(Or3(q[k1], q[k2]))
    IN  IF v = <<"N", "U", "L", "L">> THEN <<>> ELSE v

\* parts with the empty names kept
NamePartsWithEmpty(q) ==
    << NamePart(q, "legalFirstName", "givenName"),
       NamePart(q, "legalMiddleNames", "middleName"),
       NamePart(q, "legalLastName", "surname") >>

\* generate_embedding: parts
NameParts(q) ==
    SelectSeq(<< NamePart(q, "legalFirstName", "givenName"),
                 NamePart(q, "legalMiddleNames", "middleName"),
                 NamePart(q, "legalLastName", "surname") >>,
              LAMBDA x : x # <<>>)

\* FuzzySearchService._normalize_query_dob
normalize_query_dob(dob_str) ==
    LET t == Strip(OrEmpty(dob_str))
    IN  IF t = <<>> THEN <<>>
        ELSE LET dt == Strptime(t, \E i \in 1..Len(t) : t[i] = "-")
             IN  IF dt = <<>> THEN <<>> ELSE FormatDate(dt[1], dt[2], dt[3])

\* FuzzySearchService._escape_filter_str
RECURSIVE escape_filter_str(_)
escape_filter_str(v) ==
    IF v = <<>> THEN <<>>
    ELSE (IF Head(v) = "'" THEN <<"'", "'">> ELSE <<Head(v)>>) \o escape_filter_str(Tail(v))

\* a range predicate: field ge lo [and field lt hi]; NoRange for None
NoRange == [field |-> "none", lo |-> <<>>, hi |-> None]

Range(f, lo, hi) == [field |-> f, lo |-> escape_filter_str(lo), hi |-> hi]

\* FuzzySearchService._build_dob_month_range_filter
build_dob_month_range_filter(q_dob) ==
    IF q_dob = <<>> THEN NoRange
    ELSE Range("dob", Prefix(q_dob, 7) \o <<"-", "0", "1">>,
               escape_filter_str(Prefix(q_dob, 7) \o <<"-", "3", "2">>))

\* FuzzySearchService._build_mincode_prefix_range_filter
build_mincode_prefix_range_filter(q_mincode0) ==
    LET q_mincode == Strip(q_mincode0)
        prefix_len == IF Len(q_mincode) >= 6 THEN 6
                      ELSE IF Len(q_mincode) >= 4 THEN 4
                      ELSE IF Len(q_mincode) >= 3 THEN 3 ELSE 0
        prefix == Prefix(q_mincode, prefix_len)
    IN  IF prefix_len = 0 THEN NoRange
        ELSE IF ~IsDigits(prefix) THEN Range("mincode", prefix, None)
        ELSE Range("mincode", prefix,
                   escape_filter_str(ZFill(DecStr(DecVal(prefix) + 1), prefix_len)))

\* _build_postal_fsa_range_filter raises IndexError on fsa[2]
PostalRaises(q_postal) ==
    LET fsa == Prefix(Upper(NoSpaces(q_postal)), 3)
    IN  q_postal # <<>> /\ fsa # <<>> /\ Len(fsa) < 3

\* FuzzySearchService._build_postal_fsa_range_filter
build_postal_fsa_range_filter(q_postal) ==
    LET fsa == Prefix(Upper(NoSpaces(q_postal)), 3)
    IN  IF q_postal = <<>> \/ fsa = <<>> THEN NoRange
        ELSE IF Ord(fsa[3]) >= Ord("A") /\ Ord(fsa[3]) < Ord("Z")
             THEN Range("postalCode", fsa,
                        escape_filter_str(<<fsa[1], fsa[2], AsciiChars[Ord(fsa[3]) + 1]>>))
        ELSE Range("postalCode", fsa, None)

\* a filter expression: sexCode eq sex (None: no such clause) and (r1 or r2 ...)
NoFilter == [sex |-> None, ranges |-> <<>>]

\* soft_fuzzy_search, step 3: or_clauses
or_clauses(q_dob, q_mincode, q_postal) ==
    SelectSeq(<< build_dob_month_range_filter(q_dob),
                 build_mincode_prefix_range_filter(q_mincode),
                 build_postal_fsa_range_filter(q_postal) >>,
              LAMBDA r : r # NoRange)

\* the combined filter without its range predicates
FilterExprRangesDropped(q_sex, clauses) ==
    [sex |-> IF q_sex # <<>> THEN escape_filter_str(q_sex) ELSE None, ranges |-> <<>>]

\* the combined filter without its sex predicate
FilterExprSexDropped(q_sex, clauses) == [sex |-> None, ranges |-> clauses]

\* soft_fuzzy_search, step 4: filter_expr (NoFilter for None)
filter_expr(q_sex, clauses) ==
    IF clauses # <<>>
    THEN [sex |-> IF q_sex # <<>> THEN escape_filter_str(q_sex) ELSE None, ranges |-> clauses]
    ELSE IF q_sex # <<>> THEN [sex |-> escape_filter_str(q_sex), ranges |-> <<>>]
    ELSE NoFilter

\* the first fallback dropping the sex predicate as well
SexOnlyAsNoFilter(q_sex) == NoFilter

\* soft_fuzzy_search, step 6: sex_only_filter
sex_only_filter(q_sex) == [sex |-> escape_filter_str(q_sex), ranges |-> <<>>]

\* the index reads '' inside a literal as one quote
RECURSIVE Unescape(_)
Unescape(v) ==
    IF v = <<>> THEN <<>>
    ELSE IF Len(v) >= 2 /\ v[1] = "'" /\ v[2] = "'" THEN <<"'">> \o Unescape(Drop(v, 2))
    ELSE <<Head(v)>> \o Unescape(Tail(v))

\* the index: a record satisfies a range predicate
RangeHolds(rec, r) ==
    /\ rec[r.field] # None
    /\ ~StrLess(rec[r.field], Unescape(r.lo))
    /\ (r.hi = None \/ StrLess(rec[r.field], Unescape(r.hi)))

\* the index: a record satisfies a filter expression
FilterHolds(rec, f) ==
    /\ f.sex = None \/ (rec["sexCode"] # None /\ rec["sexCode"] = Unescape(f.sex))
    /\ f.ranges = <<>> \/ \E j \in 1..Len(f.ranges) : RangeHolds(rec, f.ranges[j])

\* the number of fixture record rec
RecNo(rec) == DecVal(Tail(rec["student_id"]))

\* the index: the name-embedding similarity of a record (per mille); the
\* nearest neighbour is the first record, then the second, and so on
VectorScore(rec) == 900 - 5 * RecNo(rec)

WithScore(rec, score) ==
    [k \in DOMAIN rec \cup {"@search.score"} |-> IF k = "@search.score" THEN score ELSE rec[k]]

RECURSIVE FilterSeq(_, _)
FilterSeq(recs, f) ==
    IF recs = <<>> THEN <<>>
    ELSE (IF FilterHolds(Head(recs), f) THEN <<WithScore(Head(recs), VectorScore(Head(recs)))>>
          ELSE <<>>) \o FilterSeq(Tail(recs), f)

\* search_client.search(vector_queries = ..., filter = f, top = top_k)
VectorSearch(idx, f, top_k) == Prefix(FilterSeq(idx, f), top_k)

\* the date-of-birth scorer without the step for the same year and month
DobSimilarityNoMonth(query_dob, candidate_dob) ==
    IF ~Truthy(query_dob) \/ ~Truthy(candidate_dob) THEN 0
    ELSE LET cand_full == Prefix(candidate_dob, 10)
         IN  IF query_dob = cand_full THEN 1000
             ELSE IF Prefix(query_dob, 4) = Prefix(cand_full, 4) THEN 400
             ELSE 0

\* FuzzySearchService._dob_similarity (per mille)
dob_similarity(query_dob, candidate_dob) ==
    IF ~Truthy(query_dob) \/ ~Truthy(candidate_dob) THEN 0
    ELSE LET cand_full == Prefix(candidate_dob, 10)
         IN  IF query_dob = cand_full THEN 1000
             ELSE IF Prefix(query_dob, 7) = Prefix(cand_full, 7) THEN 700
             ELSE IF Prefix(query_dob, 4) = Prefix(cand_full, 4) THEN 400
             ELSE 0

\* str.lstrip("0")
RECURSIVE LStripZeros(_)
LStripZeros(s) == IF s # <<>> /\ Head(s) = "0" THEN LStripZeros(Tail(s)) ELSE s

Min2(a, b) == IF a < b THEN a ELSE b

\* the institution-code scorer with the leading zeros kept
MincodeSimilarityKeepZeros(query_mincode, candidate_mincode) ==
    IF ~Truthy(query_mincode) \/ ~Truthy(candidate_mincode) THEN 0
    ELSE LET q_norm == Strip(query_mincode)
             c_norm == Strip(candidate_mincode)
             max_prefix == Min2(Len(q_norm), Len(c_norm))
         IN  IF q_norm = c_norm THEN 1000
             ELSE IF max_prefix >= 4 /\ Prefix(q_norm, 4) = Prefix(c_norm, 4) THEN 800
             ELSE IF max_prefix >= 3 /\ Prefix(q_norm, 3) = Prefix(c_norm, 3) THEN 600
             ELSE 0

\* FuzzySearchService._mincode_similarity (per mille)
mincode_similarity(query_mincode, candidate_mincode) ==
    IF ~Truthy(query_mincode) \/ ~Truthy(candidate_mincode) THEN 0
    ELSE LET q_norm == LStripZeros(Strip(query_mincode))
             c_norm == LStripZeros(Strip(candidate_mincode))
             max_prefix == Min2(Len(q_norm), Len(c_norm))
         IN  IF q_norm = c_norm THEN 1000
             ELSE IF max_prefix >= 4 /\ Prefix(q_norm, 4) = Prefix(c_norm, 4) THEN 800
             ELSE IF max_prefix >= 3 /\ Prefix(q_norm, 3) = Prefix(c_norm, 3) THEN 600
             ELSE 0

\* the postal-code scorer comparing the values in the case they are written in
PostalSimilarityCaseSensitive(query_postal, candidate_postal) ==
    IF ~Truthy(query_postal) \/ ~Truthy(candidate_postal) THEN 0
    ELSE LET q == NoSpaces(query_postal)
             c == NoSpaces(candidate_postal)
         IN  IF q = c THEN 1000
             ELSE IF Len(q) >= 3 /\ Len(c) >= 3 /\ Prefix(q, 3) = Prefix(c, 3) THEN 700
             ELSE IF Len(q) >= 2 /\ Len(c) >= 2 /\ Prefix(q, 2) = Prefix(c, 2) THEN 500
             ELSE 0

\* FuzzySearchService._postal_similarity (per mille)
postal_similarity(query_postal, candidate_postal) ==
    IF ~Truthy(query_postal) \/ ~Truthy(candidate_postal) THEN 0
    ELSE LET q == Upper(NoSpaces(query_postal))
             c == Upper(NoSpaces(candidate_postal))
         IN  IF q = c THEN 1000
             ELSE IF Len(q) >= 3 /\ Len(c) >= 3 /\ Prefix(q, 3) = Prefix(c, 3) THEN 700
             ELSE IF Len(q) >= 2 /\ Len(c) >= 2 /\ Prefix(q, 2) = Prefix(c, 2) THEN 500
             ELSE 0

\* FuzzySearchService._sex_similarity (per mille)
sex_similarity(query_sex, candidate_sex) ==
    IF ~Truthy(query_sex) \/ ~Truthy(candidate_sex) THEN 0
    ELSE IF Upper(query_sex) = Upper(candidate_sex) THEN 1000 ELSE 0

ScoreKeys ==
    {"base_search_score", "dob_sim", "mincode_sim", "postal_sim", "sex_sim",
     "final_score", "search_method"}

\* _rank_with_light_scoring: the scoring fields attached to one candidate
Scored(q_dob, q_mincode, q_postal, q_sex, cand) ==
    LET base_score  == cand["@search.score"]
        dob_sim     == dob_similarity(q_dob, cand["dob"])
        mincode_sim == mincode_similarity(q_mincode, OrEmpty(cand["mincode"]))
        postal_sim  == postal_similarity(q_postal, OrEmpty(cand["postalCode"]))
        sex_sim     == sex_similarity(q_sex, Upper(OrEmpty(cand["sexCode"])))
        final_score == base_score
                       + (5 * dob_sim + 3 * mincode_sim + 2 * postal_sim + 1 * sex_sim) \div 10
    IN  [ k \in DOMAIN cand \cup ScoreKeys |->
            CASE k = "base_search_score" -> base_score
              [] k = "dob_sim"           -> dob_sim
              [] k = "mincode_sim"       -> mincode_sim
              [] k = "postal_sim"        -> postal_sim
              [] k = "sex_sim"           -> sex_sim
              [] k = "final_score"       -> final_score
              [] k = "search_method"     -> "fuzzy_vector_or_ranges"
              [] OTHER                   -> cand[k] ]

\* list.sort(key = final_score, reverse = True) is stable: insert x after the
\* entries that are not smaller
RECURSIVE InsertDesc(_, _)
InsertDesc(sorted, x) ==
    IF sorted = <<>> THEN <<x>>
    ELSE IF Head(sorted)["final_score"] >= x["final_score"]
         THEN <<Head(sorted)>> \o InsertDesc(Tail(sorted), x)
    ELSE <<x>> \o sorted

RECURSIVE SortDesc(_, _)
SortDesc(done, rest) ==
    IF rest = <<>> THEN done ELSE SortDesc(InsertDesc(done, Head(rest)), Tail(rest))

\* the scored candidates left in the order the index returned them
RankUnsorted(q_dob, q_mincode, q_postal, q_sex, cands) ==
    [i \in 1..Len(cands) |-> Scored(q_dob, q_mincode, q_postal, q_sex, cands[i])]

\* FuzzySearchService._rank_with_light_scoring
rank_with_light_scoring(q_dob, q_mincode, q_postal, q_sex, cands) ==
    SortDesc(<<>>, [i \in 1..Len(cands) |-> Scored(q_dob, q_mincode, q_postal, q_sex, cands[i])])

\* ------------------------------------------------------------------------
\* State of one request
\* ------------------------------------------------------------------------
VARIABLES
    entry,          \* "search": /match-student, /pen-match; "agent": /analyze
    student_query,  \* the validated StudentQuery of the request
    index,          \* the records of the search index (external, unchanged)
    request,        \* the query dict handed to search_students / run_match
    pc,             \* the position of the request's control flow
    srch,           \* search_students: query_no_pen and the dict it returns
    fz,             \* soft_fuzzy_search: its locals
    calls,          \* the external calls made so far, in order
    wf,             \* the workflow state (PenMatchState)
    response,       \* what the caller of the entry point gets
    llm_client,     \* the LLMClient the request uses: whether other requests
                    \* use the same object, the temperatures of its two
                    \* models, the attributes assigned since its construction
    fncall,         \* a helper function called on its own: its name, its
                    \* arguments and what it returned
    earlier         \* an earlier call of search_students in this process:
                    \* whether there was one, the external calls it made,
                    \* what it returned, whether it raised

vars == <<earlier, fncall, llm_client, entry, student_query, index, request, pc, srch, fz, calls, wf, response>>

NoFuzzy ==
    [ q_dob |-> <<>>, q_mincode |-> <<>>, q_postal |-> <<>>, q_sex |-> <<>>,
      filter_expr |-> NoFilter, used_buckets |-> FALSE, filters_run |-> <<>>,
      candidates |-> <<>> ]

NoAnalysis ==
    [ keys |-> {}, decision |-> "unset", confidence |-> -1, reasons |-> <<>>,
      chosen_candidate |-> <<>>, review_candidates |-> <<>>,
      suspected_input_issues |-> <<>> ]

\* PenMatchState before any node ran (total = False: nothing set)
NoState ==
    [ candidates |-> <<>>, search_metadata |-> [status |-> "unset", pen_status |-> "unset",
                                                search_type |-> "unset", count |-> 0],
      analysis |-> NoAnalysis, final_decision |-> "unset", selected_candidate |-> None,
      confidence |-> -1, route |-> "unset", llm_used |-> FALSE, error |-> "unset" ]

\* one external call: the service, the operation, its arguments (the equality
\* predicates, the filter expression, the embedded text or the candidate
\* payload), whether it came back without an exception, the number of records
\* it returned and, for the assistant, its reply
NoReply ==
    [ kind |-> "none", decision |-> "absent", confidence |-> 0,
      chosen_candidate |-> <<>>, review_candidates |-> <<>>, extra |-> "none" ]

Call(svc, op, preds, filter, text, ok, count) ==
    [ svc |-> svc, op |-> op, preds |-> preds, filter |-> filter, text |-> text,
      payload |-> <<>>, ok |-> ok, count |-> count, reply |-> NoReply ]

\* ------------------------------------------------------------------------
\* Inputs
\* ------------------------------------------------------------------------
QueryValue(f, choice) ==
    CASE choice = "same"    -> (IF f = "legalMiddleNames" THEN FixtureValue2[f] ELSE FixtureValue[f])
      [] choice = "variant" -> VariantValue[f]
      [] choice = "other"   -> OtherValue[f]

\* a StudentQuery: the fields in S get the chosen values, the others are not
\* supplied (the two required names are then the empty string)
MakeQuery(pen, S, ch) ==
    [ f \in StudentQueryFields |->
        IF f = "pen" THEN pen
        ELSE IF f \in S THEN QueryValue(f, ch[f])
        ELSE IF f \in {"legalFirstName", "legalLastName"} THEN <<>>
        ELSE None ]

Queries(pens, fields, choices, maxSupplied) ==
    UNION { UNION { { MakeQuery(p, S, ch) : ch \in [S -> choices] } : p \in pens }
            : S \in {T \in SUBSET fields : Cardinality(T) <= maxSupplied} }

Pens == {None, PenOf(1), UnknownPen}

\* index fixtures around the cardinality boundaries of the exact stage
Fixtures ==
    {FixtureIndex(n, FALSE) : n \in {0, 1, 2, MaxExact, HardTop, HardTop + 1}}
        \cup {FixtureIndex(2, TRUE)}

NameFields == {"legalFirstName", "legalLastName"}

OtherFields == {"dob", "sexCode", "mincode", "localID"}

\* how a request to the workflow may spell a field it supplies
WorkflowChoices ==
    [ legalFirstName |-> {"same"}, legalLastName |-> {"same"},
      dob |-> {"same", "other"}, sexCode |-> {"same"},
      mincode |-> {"same", "other"}, localID |-> {"same"} ]

\* requests to the workflow: the two required names both given or both left
\* out, and up to MaxSupplied of the other fields
WorkflowQueries ==
    UNION { UNION { UNION { { MakeQuery(p, S \cup N, ch) :
                                ch \in {c \in [S \cup N -> {"same", "other"}] :
                                            \A f \in S \cup N : c[f] \in WorkflowChoices[f]} }
                            : p \in Pens }
                    : N \in {{}, NameFields} }
            : S \in {T \in SUBSET OtherFields : Cardinality(T) <= MaxSupplied} }

\* no helper function is called on its own
NoCall ==
    [fn |-> "none", a |-> None, b |-> None, score |-> -1, text |-> None, range |-> NoRange]

\* search_students has not been called before
NoEarlier == [made |-> FALSE, ncalls |-> 0, result |-> NoResult, raised |-> FALSE]

\* no LLMClient has been constructed
NoLLMClient ==
    [shared |-> FALSE, analytical_temperature |-> 0, creative_temperature |-> 0, assigned |-> {}]

InitWith(entries, queries, fixtures) ==
    /\ entry \in entries
    /\ student_query \in queries
    /\ index \in fixtures
    /\ request = NoKeys
    /\ pc = "endpoint"
    /\ srch = [query_no_pen |-> NoKeys, result |-> NoResult]
    /\ fz = NoFuzzy
    /\ calls = <<>>
    /\ wf = NoState
    /\ response = "none"
    /\ llm_client = NoLLMClient
    /\ fncall = NoCall
    /\ earlier = NoEarlier

Init == InitWith({"search", "agent"}, WorkflowQueries, Fixtures)

\* ------------------------------------------------------------------------
\* Entry points
\* ------------------------------------------------------------------------
\* api.main.match_student / pen_match up to the call of search_student_by_query
SearchEndpoint ==
    /\ pc = "endpoint" /\ entry = "search"
    /\ request' = build_query_dict(student_query)
    /\ pc' = "search_students"
    /\ UNCHANGED <<earlier, fncall, llm_client, entry, student_query, index, srch, fz, calls, wf, response>>

\* LLMClient.__init__: creative_llm with temperature 0.7, analytical_llm with
\* temperature 0.1 (per mille); nothing assigned after construction
NewLLMClient(shared) ==
    [ shared |-> shared, analytical_temperature |-> 100, creative_temperature |-> 700,
      assigned |-> {} ]

\* one workflow built when the module is loaded and used by every request
ModuleLevelWorkflow == NewLLMClient(TRUE)

\* analyze_match: workflow = create_pen_match_workflow(), built inside the
\* handler, so each request has an LLMClient of its own
create_pen_match_workflow == NewLLMClient(FALSE)

\* api.main_agent.analyze_match and PenMatchWorkflow.run_match up to the fetch
\* node's call of search_student_by_query
AnalyzeEndpoint ==
    /\ pc = "endpoint" /\ entry = "agent"
    /\ request' = convert_query_to_legacy_format(student_query)
    /\ llm_client' = create_pen_match_workflow
    /\ IF ValidRequest(request')
       THEN pc' = "search_students" /\ response' = response
       ELSE pc' = "done" /\ response' = "error_response"
    /\ UNCHANGED <<earlier, fncall, entry, student_query, index, srch, fz, calls, wf>>

\* ------------------------------------------------------------------------
\* StudentSearchService.search_students
\* ------------------------------------------------------------------------
Result(pen_status, search_type, results, count, message) ==
    [ status |-> "success", pen_status |-> pen_status, search_type |-> search_type,
      results |-> results, count |-> count, message |-> message,
      filters_run |-> <<>>, reason |-> "none" ]

\* filter-only searches score every hit 1.0
Hits(recs) == [i \in 1..Len(recs) |-> WithScore(recs[i], 1000)]

\* an identifier hit recognised only when it is not unique
PenFoundMany(count) == count > 1

\* an identifier hit never recognised
PenNeverFound(count) == FALSE

\* search_students: if pen_search["count"] > 0
PenFound(count) == count > 0

\* a failed index lookup raising out of its helper
LookupRaisesOnFailure(ok) == ~ok

\* _search_by_pen, _hard_filter_search: except Exception returns the empty
\* result, so nothing is raised whether the call succeeded or not
LookupRaises(ok) == FALSE

\* Case 1: pen supplied; _search_by_pen, then the field comparison
PenLookup ==
    /\ pc = "search_students" /\ Truthy(request["pen"])
    /\ \E ok \in BOOLEAN :
        LET preds == << <<"pen", request["pen"]>> >>
            found == IF ok THEN Hits(IndexSearch(index, preds, PenTop)) ELSE <<>>
            mt    == count_matching_fields(request, found[1])
        IN  /\ calls' = Append(calls, Call("index", "pen_lookup", preds, NoFilter, <<>>, ok, Len(found)))
            /\ IF LookupRaises(ok)
               THEN /\ pc' = "search_raised"
                    /\ srch' = srch
               ELSE IF PenFound(Len(found))
               THEN /\ srch' = [srch EXCEPT !.result =
                                   Result(PenStatusOf(mt[1], mt[2]), "pen_lookup", found,
                                          Len(found), "none")]
                    /\ pc' = "search_returned"
               ELSE /\ srch' = [srch EXCEPT !.query_no_pen = WithoutPen(request)]
                    /\ pc' = "exact"
    /\ UNCHANGED <<earlier, fncall, llm_client, entry, student_query, index, request, fz, wf, response>>

\* Case 1 not taken: no pen in the query
NoPenSupplied ==
    /\ pc = "search_students" /\ ~Truthy(request["pen"])
    /\ srch' = [srch EXCEPT !.query_no_pen = request]
    /\ pc' = "exact"
    /\ UNCHANGED <<earlier, fncall, llm_client, entry, student_query, index, request, fz, calls, wf, response>>

\* the classification with a single hit counted among the multiple ones
ExactClassNoSingle(count_exact) ==
    IF count_exact > MaxExact THEN "too_many"
    ELSE IF 1 <= count_exact /\ count_exact <= MaxExact THEN "multiple"
    ELSE "none"

\* the classification with the limit taken one too low
ExactClassLimitLow(count_exact) ==
    IF count_exact >= MaxExact THEN "too_many"
    ELSE IF count_exact = 1 THEN "single"
    ELSE IF 1 < count_exact /\ count_exact < MaxExact THEN "multiple"
    ELSE "none"

\* search_students, Case 2: the branch taken for count_exact
ExactClass(count_exact) ==
    IF count_exact > MaxExact THEN "too_many"
    ELSE IF count_exact = 1 THEN "single"
    ELSE IF 1 < count_exact /\ count_exact <= MaxExact THEN "multiple"
    ELSE "none"

\* Case 2: _hard_filter_search and the classification of its count
ExactMatch ==
    /\ pc = "exact"
    /\ LET q      == srch.query_no_pen
           preds  == HardFilters(q)
           called == NonEmptyDict(q) /\ preds # <<>>
       IN  \E ok \in (IF called THEN BOOLEAN ELSE {FALSE}) :
            LET found       == IF ok THEN IndexSearch(index, preds, HardTop) ELSE <<>>
                count_exact == Len(found)
                results     == Hits(Prefix(found, MaxExact))
            IN  /\ calls' = IF called
                            THEN Append(calls, Call("index", "hard_filter", preds, NoFilter, <<>>, ok, count_exact))
                            ELSE calls
                /\ IF called /\ LookupRaises(ok)
                   THEN /\ pc' = "search_raised"
                        /\ srch' = srch
                   ELSE IF ExactClass(count_exact) = "too_many"
                   THEN /\ srch' = [srch EXCEPT !.result =
                                       Result("C0", "exact_match", <<>>, count_exact, "over40")]
                        /\ pc' = "search_returned"
                   ELSE IF ExactClass(count_exact) = "single"
                   THEN /\ srch' = [srch EXCEPT !.result =
                                       Result("D1", "exact_match", results, count_exact, "none")]
                        /\ pc' = "search_returned"
                   ELSE IF ExactClass(count_exact) = "multiple"
                   THEN /\ srch' = [srch EXCEPT !.result =
                                       Result("CM", "exact_match", results, count_exact, "none")]
                        /\ pc' = "search_returned"
                   ELSE /\ srch' = srch
                        /\ pc' = "fuzzy"
    /\ UNCHANGED <<earlier, fncall, llm_client, entry, student_query, index, request, fz, wf, response>>

\* ------------------------------------------------------------------------
\* FuzzySearchService.soft_fuzzy_search
\* ------------------------------------------------------------------------
FuzzyEmptyNoFilters(reason, filters_run) ==
    [ status |-> "success", pen_status |-> "C0", search_type |-> "fuzzy_match",
      results |-> <<>>, count |-> 0, message |-> "none",
      filters_run |-> <<>>, reason |-> reason ]

FuzzyEmpty(reason, filters_run) ==
    [ status |-> "success", pen_status |-> "C0", search_type |-> "fuzzy_match",
      results |-> <<>>, count |-> 0, message |-> "none",
      filters_run |-> filters_run, reason |-> reason ]

\* a single fuzzy candidate reported as a single match
FuzzyResultSingleAsD1(f, cands, filters_run) ==
    IF cands = <<>>
    THEN FuzzyEmpty("No candidates found from OR-range/sex filter and fallbacks", filters_run)
    ELSE LET top_candidates ==
                 Prefix(rank_with_light_scoring(f.q_dob, f.q_mincode, f.q_postal, f.q_sex, cands),
                        FuzzyTop)
         IN  [ status |-> "success",
               pen_status |-> IF Len(top_candidates) = 1 THEN "D1" ELSE "CM",
               search_type |-> "fuzzy_match",
               results |-> top_candidates, count |-> Len(top_candidates), message |-> "none",
               filters_run |-> filters_run, reason |-> "none" ]

\* soft_fuzzy_search steps 6 (end) and 7, and search_students Case 3: what
\* search_students returns for the candidates of the last attempt
FuzzyResult(f, cands, filters_run) ==
    IF cands = <<>>
    THEN FuzzyEmpty("No candidates found from OR-range/sex filter and fallbacks", filters_run)
    ELSE LET top_candidates ==
                 Prefix(rank_with_light_scoring(f.q_dob, f.q_mincode, f.q_postal, f.q_sex, cands),
                        FuzzyTop)
         IN  [ status |-> "success", pen_status |-> "CM", search_type |-> "fuzzy_match",
               results |-> top_candidates, count |-> Len(top_candidates), message |-> "none",
               filters_run |-> filters_run, reason |-> "none" ]

\* steps 1 to 4: the embedding of the name, the normalised fields, the filter
GenerateEmbedding ==
    /\ pc = "fuzzy"
    /\ LET q     == srch.query_no_pen
           parts == NameParts(q)
       IN  \E ok \in (IF parts # <<>> THEN BOOLEAN ELSE {FALSE}) :
            LET q_dob     == normalize_query_dob(Or3(q["dob"], q["birthDate"]))
                q_mincode == Strip(OrEmpty(q["mincode"]))
                q_postal  == Strip(Or3(q["postalCode"], q["postal"]))
                q_sex     == Upper(Or3(q["sexCode"], q["sex"]))
                clauses   == or_clauses(q_dob, q_mincode, q_postal)
            IN  /\ calls' = IF parts # <<>>
                            THEN Append(calls, Call("embedding", "create", <<>>, NoFilter, parts, ok, 0))
                            ELSE calls
                /\ IF ~ok
                   THEN /\ srch' = [srch EXCEPT !.result =
                                       FuzzyEmpty("No name embedding available for fuzzy search", <<>>)]
                        /\ pc' = "search_returned"
                        /\ fz' = fz
                   ELSE IF PostalRaises(q_postal)
                   THEN /\ pc' = "search_raised"
                        /\ UNCHANGED <<srch, fz>>
                   ELSE /\ fz' = [ q_dob |-> q_dob, q_mincode |-> q_mincode, q_postal |-> q_postal,
                                   q_sex |-> q_sex, filter_expr |-> filter_expr(q_sex, clauses),
                                   used_buckets |-> clauses # <<>>, filters_run |-> <<>>,
                                   candidates |-> <<>> ]
                        /\ pc' = "fuzzy_main"
                        /\ srch' = srch
    /\ UNCHANGED <<earlier, fncall, llm_client, entry, student_query, index, request, wf, response>>

\* one nearest-neighbour attempt (_vector_search_once has no handler: a failed
\* call raises out of search_students) and the choice of what follows it
VectorAttempt(label, f, mayFallBackToSex) ==
    \E ok \in BOOLEAN :
        LET cands == VectorSearch(index, f, top_k_vector)
            run   == Append(fz.filters_run, [label |-> label, filter |-> f])
        IN  /\ calls' = Append(calls, Call("index", "vector", <<>>, f, <<>>, ok, IF ok THEN Len(cands) ELSE 0))
            /\ IF ~ok
               THEN /\ pc' = "search_raised"
                    /\ fz' = [fz EXCEPT !.filters_run = run]
                    /\ srch' = srch
               ELSE /\ fz' = [fz EXCEPT !.filters_run = run, !.candidates = cands]
                    /\ IF cands = <<>> /\ mayFallBackToSex /\ fz.used_buckets /\ fz.q_sex # <<>>
                       THEN pc' = "fuzzy_sex_only" /\ srch' = srch
                       ELSE IF cands = <<>> /\ fz.filter_expr # NoFilter /\ f # NoFilter
                       THEN pc' = "fuzzy_no_filter" /\ srch' = srch
                       ELSE /\ pc' = "search_returned"
                            /\ srch' = [srch EXCEPT !.result = FuzzyResult(fz, cands, run)]

\* step 5: the main vector search with the combined filter
VectorMain ==
    /\ pc = "fuzzy_main"
    /\ VectorAttempt(IF fz.filter_expr # NoFilter THEN "OR-RANGE filter" ELSE "NO filter",
                     fz.filter_expr, TRUE)
    /\ UNCHANGED <<earlier, fncall, llm_client, entry, student_query, index, request, wf, response>>

\* step 6, first fallback: the sex-only filter
VectorSexOnly ==
    /\ pc = "fuzzy_sex_only"
    /\ VectorAttempt("SEX-ONLY fallback", sex_only_filter(fz.q_sex), FALSE)
    /\ UNCHANGED <<earlier, fncall, llm_client, entry, student_query, index, request, wf, response>>

\* step 6, final fallback: no filter
VectorNoFilter ==
    /\ pc = "fuzzy_no_filter"
    /\ VectorAttempt("NO-FILTER final fallback", NoFilter, FALSE)
    /\ UNCHANGED <<earlier, fncall, llm_client, entry, student_query, index, request, wf, response>>

\* api.main.match_student / pen_match after search_student_by_query: the
\* response, or HTTP 500 when it raised
SearchReturn ==
    /\ pc \in {"search_returned", "search_raised"} /\ entry = "search"
    /\ response' = IF pc = "search_returned" THEN "ok" ELSE "http500"
    /\ pc' = "done"
    /\ UNCHANGED <<earlier, fncall, llm_client, entry, student_query, index, request, srch, fz, calls, wf>>

\* ------------------------------------------------------------------------
\* Arbitration workflow (pen_agent/)
\* ------------------------------------------------------------------------
\* nodes.ALLOWED_CANDIDATE_FIELDS
ALLOWED_CANDIDATE_FIELDS ==
    { "student_id", "pen", "legalFirstName", "legalMiddleNames", "legalLastName",
      "dob", "sexCode", "mincode", "postalCode", "localID", "gradeCode",
      "@search.score", "final_score", "search_method" }

\* candidate[k] is None (only the index fields can be)
IsNone(c, k) == k \in select_fields /\ c[k] = None

\* the candidate handed on with every field it has
WholeCandidate(c) == c

\* nodes.slim_candidate
slim_candidate(c) ==
    LET kept == {k \in ALLOWED_CANDIDATE_FIELDS \cap DOMAIN c : ~IsNone(c, k)}
        out  == (kept \ {"@search.score"}) \cup
                (IF "@search.score" \in kept THEN {"search_score"} ELSE {})
    IN  [k \in out |-> IF k = "search_score" THEN c["@search.score"] ELSE c[k]]

\* nodes.fetch_candidates_node after search_student_by_query returned or raised
FetchReturn ==
    /\ pc \in {"search_returned", "search_raised"} /\ entry = "agent"
    /\ wf' = IF pc = "search_returned"
             THEN [wf EXCEPT !.candidates = srch.result.results,
                             !.search_metadata =
                                 [ status |-> srch.result.status,
                                   pen_status |-> srch.result.pen_status,
                                   search_type |-> srch.result.search_type,
                                   count |-> srch.result.count ]]
             ELSE [wf EXCEPT !.candidates = <<>>,
                             !.search_metadata =
                                 [ status |-> "error", pen_status |-> "unset",
                                   search_type |-> "unset", count |-> 0 ]]
    /\ pc' = "router"
    /\ UNCHANGED <<earlier, fncall, llm_client, entry, student_query, index, request, srch, fz, calls, response>>

Reason(text, cause) == [text |-> text, cause |-> cause]

\* the keys of the analysis dicts the nodes write themselves
NodeAnalysisKeys ==
    { "decision", "confidence", "reasons", "chosen_candidate", "mismatches",
      "ranked_candidates", "suspected_input_issues" }

\* the keys of CandidateAnalysis.model_dump()
ModelDumpKeys ==
    { "decision", "confidence", "reasons", "chosen_candidate", "mismatches",
      "review_candidates", "suspected_input_issues" }

\* the router without its single-candidate shortcut
RouteOfNoShortcut(candidate_count) ==
    IF candidate_count = 0 THEN "no_match" ELSE "llm_analyze"

\* decision_router_node: the branch taken for candidate_count
RouteOf(candidate_count) ==
    IF candidate_count = 0 THEN "no_match"
    ELSE IF candidate_count = 1 THEN "confirm"
    ELSE "llm_analyze"

\* the empty-list branch without its input-issue annotation
RouterNoMatchNoIssues(state) ==
    [state EXCEPT
        !.final_decision = "NO_MATCH",
        !.selected_candidate = None,
        !.confidence = 0,
        !.llm_used = FALSE,
        !.analysis =
            [ keys |-> NodeAnalysisKeys, decision |-> "NO_MATCH", confidence |-> 0,
              reasons |-> <<Reason("No candidates found in search", "none")>>,
              chosen_candidate |-> <<>>, review_candidates |-> <<>>,
              suspected_input_issues |-> <<>> ],
        !.route = "end"]

\* decision_router_node: what it returns when there is no candidate
RouterNoMatch(state) ==
    [state EXCEPT
        !.final_decision = "NO_MATCH",
        !.selected_candidate = None,
        !.confidence = 0,
        !.llm_used = FALSE,
        !.analysis =
            [ keys |-> NodeAnalysisKeys, decision |-> "NO_MATCH", confidence |-> 0,
              reasons |-> <<Reason("No candidates found in search", "none")>>,
              chosen_candidate |-> <<>>, review_candidates |-> <<>>,
              suspected_input_issues |-> <<[field |-> "unknown", issue |-> "missing"]>> ],
        !.route = "end"]

\* the single-candidate branch selecting by the wrong key
RouterConfirmByPen(state, c) ==
    [state EXCEPT
        !.final_decision = "CONFIRM",
        !.selected_candidate = c["pen"],
        !.confidence = 1000,
        !.llm_used = FALSE,
        !.analysis =
            [ keys |-> NodeAnalysisKeys, decision |-> "CONFIRM", confidence |-> 1000,
              reasons |-> <<Reason("Single candidate returned from search", "none")>>,
              chosen_candidate |-> <<slim_candidate(c)>>, review_candidates |-> <<>>,
              suspected_input_issues |-> <<>> ],
        !.route = "end"]

\* decision_router_node: what it returns for the single candidate c
RouterConfirm(state, c) ==
    [state EXCEPT
        !.final_decision = "CONFIRM",
        !.selected_candidate = c["student_id"],
        !.confidence = 1000,
        !.llm_used = FALSE,
        !.analysis =
            [ keys |-> NodeAnalysisKeys, decision |-> "CONFIRM", confidence |-> 1000,
              reasons |-> <<Reason("Single candidate returned from search", "none")>>,
              chosen_candidate |-> <<slim_candidate(c)>>, review_candidates |-> <<>>,
              suspected_input_issues |-> <<>> ],
        !.route = "end"]

\* nodes.decision_router_node and pen_graph.route_decision
Router ==
    /\ pc = "router"
    /\ LET candidates == wf.candidates
           route == RouteOf(Len(candidates))
       IN  IF route = "no_match"
           THEN wf' = RouterNoMatch(wf) /\ pc' = "end"
           ELSE IF route = "confirm"
           THEN wf' = RouterConfirm(wf, candidates[1]) /\ pc' = "end"
           ELSE /\ wf' = [wf EXCEPT !.route = "llm_analyze", !.llm_used = TRUE]
                /\ pc' = "analyze"
    /\ UNCHANGED <<earlier, fncall, llm_client, entry, student_query, index, request, srch, fz, calls, response>>

\* schemas.Decision
Decision == {"CONFIRM", "REVIEW", "NO_MATCH"}

\* what the assistant can answer: a failure of the call, text that is not
\* JSON, JSON that is not an object, or an object
Reply(kind, decision, confidence, chosen, review, extra) ==
    [ kind |-> kind, decision |-> decision, confidence |-> confidence,
      chosen_candidate |-> chosen, review_candidates |-> review, extra |-> extra ]

Sid(i) == <<"S">> \o DecStr(i)

\* review lists of every length up to MaxReview, and one with a repeated id
ReviewLists ==
    {[i \in 1..n |-> [student_id |-> Sid(i)]] : n \in 0..MaxReview}
        \cup {<<[student_id |-> Sid(1)], [student_id |-> Sid(1)]>>}

\* no candidate, the first candidate, or a record the search never returned
ChosenOptions(cands) ==
    {<<>>, <<[student_id |-> cands[1]["student_id"]]>>, <<[student_id |-> Sid(99)]>>}

FailedReplies ==
    {Reply(k, "absent", 0, <<>>, <<>>, "none") : k \in {"transport", "timeout", "unparseable", "non_dict"}}

\* objects that keep to the schema: every decision with every choice of
\* chosen_candidate, with and without a review list; every decision at both
\* ends of the confidence range; REVIEW with every review list
ConformingReplies(cands) ==
    { Reply("dict", d, 1000, ch, rv, "none") :
        d \in Decision, ch \in ChosenOptions(cands),
        rv \in {<<>>, <<[student_id |-> Sid(1)]>>} }
    \cup { Reply("dict", d, 0, <<>>, <<>>, "none") : d \in Decision }
    \cup { Reply("dict", "REVIEW", 800, <<>>, rv, "none") : rv \in ReviewLists }

\* objects that break the schema in one way each
ViolatingReplies ==
    { Reply("dict", "REVIEW", 720, <<>>, <<>>, "ranked_candidates"),
      Reply("dict", "MAYBE", 720, <<>>, <<>>, "none"),
      Reply("dict", "absent", 720, <<>>, <<>>, "none"),
      Reply("dict", "CONFIRM", 1001, <<>>, <<>>, "none"),
      Reply("dict", "CONFIRM", -1, <<>>, <<>>, "none"),
      Reply("dict", "CONFIRM", 900, <<[student_id |-> None]>>, <<>>, "none"),
      Reply("dict", "REVIEW", 900, <<>>, <<[student_id |-> None]>>, "none") }

Replies(cands) == FailedReplies \cup ConformingReplies(cands) \cup ViolatingReplies

\* CandidateRecord: student_id is a required str
CandidateRecordValid(c) == c.student_id # None

\* the schema with extra keys ignored instead of forbidden
CandidateAnalysisIgnoresExtra(r) ==
    /\ r.decision \in Decision
    /\ r.confidence >= 0 /\ r.confidence <= 1000
    /\ \A i \in 1..Len(r.chosen_candidate) : CandidateRecordValid(r.chosen_candidate[i])
    /\ \A i \in 1..Len(r.review_candidates) : CandidateRecordValid(r.review_candidates[i])

\* the schema with decision taken as any string
CandidateAnalysisAnyDecision(r) ==
    /\ r.extra = "none"
    /\ r.confidence >= 0 /\ r.confidence <= 1000
    /\ \A i \in 1..Len(r.chosen_candidate) : CandidateRecordValid(r.chosen_candidate[i])
    /\ \A i \in 1..Len(r.review_candidates) : CandidateRecordValid(r.review_candidates[i])

\* CandidateAnalysis(**result): extra = "forbid", decision: Decision,
\* confidence: ge 0.0, le 1.0
CandidateAnalysisValid(r) ==
    /\ r.extra = "none"
    /\ r.decision \in Decision
    /\ r.confidence >= 0 /\ r.confidence <= 1000
    /\ \A i \in 1..Len(r.chosen_candidate) : CandidateRecordValid(r.chosen_candidate[i])
    /\ \A i \in 1..Len(r.review_candidates) : CandidateRecordValid(r.review_candidates[i])

\* pydantic takes a list, tuple, set or generator for a List field, not a dict
ListInputValid(kind) == kind \in {"list", "tuple", "set", "generator"}

\* LLMClient.with_structured_output_and_system(...).invoke: the except branch
\* builds schema_class(decision = "NO_MATCH", ..., mismatches = {})
FallbackMismatchesKind == "dict"

\* the try block of invoke raised
InvokeTryRaises(r) ==
    \/ r.kind \in {"transport", "timeout", "unparseable"}
    \/ r.kind = "dict" /\ ~CandidateAnalysisValid(r)

\* LLMClient.with_structured_output_and_system(...).invoke:
\* a model, a value that is no model, or an exception
StructuredInvoke(r) ==
    IF InvokeTryRaises(r)
    THEN IF ListInputValid(FallbackMismatchesKind)
         THEN [ out |-> "model", cause |-> "none",
                model |-> Reply("dict", "NO_MATCH", 0, <<>>, <<>>, "none"),
                reasons |-> <<Reason("LLM analysis failed", IF r.kind = "dict" THEN "schema" ELSE r.kind)>> ]
         ELSE [ out |-> "raised", cause |-> "ValidationError(mismatches)",
                model |-> r, reasons |-> <<>> ]
    ELSE IF r.kind = "non_dict"
    THEN [out |-> "value", cause |-> "none", model |-> r, reasons |-> <<>>]
    ELSE [ out |-> "model", cause |-> "none", model |-> r,
           reasons |-> <<Reason("assistant", "none")>> ]

\* candidates[:20]
PayloadTop == 20

\* llm_analyze_node: temperature = 0.1 (per mille)
AnalyzeTemperature == 100

\* nodes.llm_analyze_node
Analyze ==
    /\ pc = "analyze"
    /\ \E r \in Replies(wf.candidates) :
        LET payload == [i \in 1..Len(Prefix(wf.candidates, PayloadTop)) |-> slim_candidate(wf.candidates[i])]
            res     == StructuredInvoke(r)
            \* result.decision on a value that is no model: AttributeError
            cause   == IF res.out = "raised" THEN res.cause ELSE "AttributeError"
        IN  /\ calls' = Append(calls, [Call("assistant", "invoke", <<>>, NoFilter, <<>>,
                                            r.kind \notin {"transport", "timeout"}, 0)
                                       EXCEPT !.payload = payload, !.reply = r])
            /\ IF res.out = "model"
               THEN wf' = [wf EXCEPT
                            !.analysis =
                                [ keys |-> ModelDumpKeys, decision |-> res.model.decision,
                                  confidence |-> res.model.confidence,
                                  reasons |-> res.reasons,
                                  chosen_candidate |-> res.model.chosen_candidate,
                                  review_candidates |-> res.model.review_candidates,
                                  suspected_input_issues |-> <<>> ],
                            !.final_decision = res.model.decision,
                            !.selected_candidate =
                                IF res.model.chosen_candidate # <<>>
                                THEN res.model.chosen_candidate[1].student_id ELSE None,
                            !.confidence = res.model.confidence,
                            !.llm_used = TRUE,
                            !.route = "end"]
               ELSE wf' = [wf EXCEPT
                            !.analysis =
                                [ keys |-> NodeAnalysisKeys, decision |-> "NO_MATCH",
                                  confidence |-> 0,
                                  reasons |-> <<Reason("LLM analysis failed", cause)>>,
                                  chosen_candidate |-> <<>>, review_candidates |-> <<>>,
                                  suspected_input_issues |->
                                      <<[field |-> "unknown", issue |-> "conflict"]>> ],
                            !.final_decision = "NO_MATCH",
                            !.selected_candidate = None,
                            !.confidence = 0,
                            !.llm_used = TRUE,
                            !.error = cause,
                            !.route = "end"]
    \* invoke: llm = self.analytical_llm; llm.temperature = temperature
    /\ llm_client' = [llm_client EXCEPT !.analytical_temperature = AnalyzeTemperature,
                                        !.assigned = @ \cup {"analytical_llm.temperature"}]
    /\ pc' = "end"
    /\ UNCHANGED <<earlier, fncall, entry, student_query, index, request, srch, fz, response>>

\* PenMatchWorkflow.run_match after graph.invoke: _format_success_response
RunMatchReturn ==
    /\ pc = "end"
    /\ response' = "success"
    /\ pc' = "done"
    /\ UNCHANGED <<earlier, fncall, llm_client, entry, student_query, index, request, srch, fz, calls, wf>>

\* ------------------------------------------------------------------------
\* Specification
\* ------------------------------------------------------------------------
Next ==
    \/ SearchEndpoint
    \/ AnalyzeEndpoint
    \/ PenLookup
    \/ NoPenSupplied
    \/ ExactMatch
    \/ GenerateEmbedding
    \/ VectorMain
    \/ VectorSexOnly
    \/ VectorNoFilter
    \/ SearchReturn
    \/ FetchReturn
    \/ Router
    \/ Analyze
    \/ RunMatchReturn

Spec == Init /\ [][Next]_vars

\* the fields a search query may also spell in another case or padded
VariantFields == {"legalFirstName", "legalLastName", "dob", "sexCode", "localID"}

\* queries over all compared fields: as on record, as on no record, or (for
\* the fields above) in another spelling of what is on record
SearchQueries ==
    {q \in Queries(Pens, {compare_fields[i] : i \in 1..Len(compare_fields)},
                   {"same", "variant", "other"}, MaxSupplied) :
        \A f \in StudentQueryFields \ ({"pen"} \cup VariantFields) :
            q[f] = VariantValue[f] => VariantValue[f] = FixtureValue[f]}

\* the Match Classifier alone, for these queries against an index of two
\* records, and for the plainly spelled ones against an empty index: both
\* entry points up to the return of search_students
InitSearch ==
    \/ InitWith({"search", "agent"}, SearchQueries, {FixtureIndex(2, FALSE)})
    \/ InitWith({"search", "agent"},
                {q \in SearchQueries :
                    /\ q["pen"] # PenOf(1)
                    /\ \A f \in VariantFields : q[f] # VariantValue[f]},
                {FixtureIndex(0, FALSE)})

NextSearch ==
    \/ SearchEndpoint
    \/ AnalyzeEndpoint
    \/ PenLookup
    \/ NoPenSupplied
    \/ ExactMatch
    \/ GenerateEmbedding
    \/ VectorMain
    \/ VectorSexOnly
    \/ VectorNoFilter
    \/ SearchReturn
    \/ FetchReturn

SpecSearch == InitSearch /\ [][NextSearch]_vars

\* ------------------------------------------------------------------------
\* The same query issued twice
\* ------------------------------------------------------------------------
\* the caller's dict with its identifier popped by the call
QueryDataPenPopped(query_data) == WithoutPen(query_data)

\* search_students reads query_data with .get and copies it into
\* query_no_pen: the caller's dict is after the call what it was before
QueryDataAfterCall(query_data) == query_data

\* search_student_by_query called once more with the same dict on the one
\* StudentSearchService of the process: new locals, the service's attributes
\* as its constructor set them
SearchAgain ==
    /\ pc \in {"search_returned", "search_raised"} /\ entry = "search"
    /\ ~earlier.made
    /\ earlier' = [ made |-> TRUE, ncalls |-> Len(calls), result |-> srch.result,
                    raised |-> pc = "search_raised" ]
    /\ request' = QueryDataAfterCall(request)
    /\ srch' = [query_no_pen |-> NoKeys, result |-> NoResult]
    /\ fz' = NoFuzzy
    /\ pc' = "search_students"
    /\ UNCHANGED <<fncall, llm_client, entry, student_query, index, calls, wf, response>>

NextRepeat ==
    \/ SearchEndpoint
    \/ PenLookup
    \/ NoPenSupplied
    \/ ExactMatch
    \/ GenerateEmbedding
    \/ VectorMain
    \/ VectorSexOnly
    \/ VectorNoFilter
    \/ SearchAgain
    \/ SearchReturn

\* a search request with a query spelled as on record or as on no record,
\* against an index of two records
SpecRepeat ==
    /\ InitWith({"search"},
                {q \in SearchQueries : \A f \in VariantFields : q[f] # VariantValue[f]},
                {FixtureIndex(2, FALSE)})
    /\ [][NextRepeat]_vars

\* ------------------------------------------------------------------------
\* The arbitration workflow alone, with fair scheduling
\* ------------------------------------------------------------------------
NextTermination ==
    \/ AnalyzeEndpoint
    \/ PenLookup
    \/ NoPenSupplied
    \/ ExactMatch
    \/ GenerateEmbedding
    \/ VectorMain
    \/ VectorSexOnly
    \/ VectorNoFilter
    \/ FetchReturn
    \/ Router
    \/ Analyze
    \/ RunMatchReturn

\* the requests to the workflow, and those of them that give a sex code,
\* once more with a sex code no record has; indexes of no, one and two
\* records, and of two with the same identifier. The handler and the graph
\* run synchronously: whenever a step can be taken (the external call it
\* waits for returns or fails), it is taken
SpecTermination ==
    /\ InitWith({"agent"},
                WorkflowQueries \cup
                    { [q EXCEPT !["sexCode"] = OtherValue["sexCode"]] :
                        q \in {w \in WorkflowQueries : Truthy(w["sexCode"])} },
                {FixtureIndex(n, FALSE) : n \in {0, 1, 2}} \cup {FixtureIndex(2, TRUE)})
    /\ [][NextTermination]_vars
    /\ WF_vars(NextTermination)

\* ------------------------------------------------------------------------
\* Queries with malformed secondary fields
\* ------------------------------------------------------------------------
\* both names as on record, no identifier, and for each secondary field no
\* value or one of: postal codes of 2, 1 and (without its blank) 2 characters
\* and one of 3; institution codes too short, with a letter, all nines;
\* dates that cannot be parsed; a sex code on record and one on none
MalformedQueries ==
    { [MakeQuery(None, NameFields, [f \in NameFields |-> "same"]) EXCEPT
          !["postalCode"] = p, !["mincode"] = m, !["dob"] = d, !["sexCode"] = x] :
        p \in {None, <<"V", "3">>, <<"V">>, <<"V", " ", "3">>, <<"V", "3", "N">>},
        m \in {None, <<"0", "5">>, <<"0", "5", "7", "5", "A">>, <<"9", "9", "9">>},
        d \in {None, <<"2", "0", "0", "1", "-", "A", "B", "-", "1", "0">>, <<"2", "0", "0", "1", "0", "2", "3", "0">>},
        x \in {None, <<"M">>, <<"X">>} }

NextMalformed ==
    \/ SearchEndpoint
    \/ AnalyzeEndpoint
    \/ NoPenSupplied
    \/ ExactMatch
    \/ GenerateEmbedding
    \/ VectorMain
    \/ VectorSexOnly
    \/ VectorNoFilter
    \/ SearchReturn
    \/ FetchReturn

SpecMalformed ==
    /\ InitWith({"search", "agent"}, MalformedQueries, {FixtureIndex(2, FALSE)})
    /\ [][NextMalformed]_vars

\* ------------------------------------------------------------------------
\* The helper functions on their own
\* ------------------------------------------------------------------------
\* dates in both spellings, one with a time of day, one padded, one of a
\* year before 1000, some that are no dates
DobInputs ==
    { <<"2", "0", "0", "1", "-", "0", "2", "-", "1", "0">>,
      <<"2", "0", "0", "1", "-", "0", "2", "-", "1", "5">>,
      <<"2", "0", "0", "1", "-", "0", "9", "-", "1", "0">>,
      <<"1", "9", "9", "9", "-", "0", "2", "-", "1", "0">>,
      <<"2", "0", "0", "1", "-", "0", "2", "-", "1", "0", "T", "0", "0">>,
      <<"2", "0", "0", "1", "0", "2", "1", "0">>,
      <<"2", "0", "0", "1", "-", "0", "2", "-", "1", "0", " ">>,
      <<"2", "0", "0", "1", "-", "0", "2", "-", "3", "0">>,
      <<"2", "0", "0", "1", "0", "2", "3", "0">>,
      <<"2", "0", "0", "1", "-", "A", "B", "-", "1", "0">>,
      <<"2", "0", "0", "1", "-", "2", "-", "1", "0">>,
      <<" ">>,
      <<"0", "9", "9", "9", "-", "0", "1", "-", "0", "1">>,
      <<"0", "9", "9", "9", "0", "1", "0", "1">> }

\* postal codes that agree wholly, on three characters, on two, on none; short ones
PostalInputs ==
    { <<"V", "3", "N", "1", "H", "4">>,
      <<"v", "3", "n", " ", "1", "h", "4">>,
      <<"V", "3", "N", "4", "H", "1">>,
      <<"V", "3", "X", "1", "A", "1">>,
      <<"X", "1", "A", "1", "A", "1">>,
      <<"V", "3">>,
      <<"V">> }

\* institution codes with and without leading zeros, padded, agreeing on four
\* and on three characters; short ones; ones whose prefix ends in 9 or is
\* all nines; one with a letter
MincodeInputs ==
    { <<"0", "5", "7", "5", "7", "0", "7", "9">>,
      <<"5", "7", "5", "7", "0", "7", "9">>,
      <<" ", "0", "5", "7", "5", "7", "0", "7", "9">>,
      <<"0", "5", "7", "5", "7", "0", "8", "0">>,
      <<"0", "5", "7", "5", "8", "0", "0", "1">>,
      <<"0", "5", "7", "5">>,
      <<"0", "5", "7">>,
      <<"0">>,
      <<"0", "0">>,
      <<"0", "9", "9", "9">>,
      <<"1", "2", "9", "9", "1", "2">>,
      <<"9", "9", "9">>,
      <<"9", "9", "9", "9">>,
      <<"9", "9", "9", "9", "9", "9">>,
      <<"9", "9", "9", "9", "9", "9", "1", "2">>,
      <<"0", "5", "7", "5", "A">> }

\* sex codes in both cases
SexInputs ==
    { <<"M">>,
      <<"m">>,
      <<"F">> }

\* the values a helper function is called with: a missing value, the empty
\* string, and the values above
HelperInputs == {None, <<>>} \cup DobInputs \cup PostalInputs \cup MincodeInputs \cup SexInputs

\* one call of a helper function with arguments a and b, not yet made
InitHelpers ==
    /\ fncall \in {[NoCall EXCEPT !.a = a, !.b = b] : a, b \in HelperInputs}
    /\ llm_client = NoLLMClient
    /\ entry = "search"
    /\ student_query = MakeQuery(None, {}, [f \in {} |-> "same"])
    /\ index = FixtureIndex(0, FALSE)
    /\ request = NoKeys
    /\ pc = "helper"
    /\ srch = [query_no_pen |-> NoKeys, result |-> NoResult]
    /\ fz = NoFuzzy
    /\ calls = <<>>
    /\ wf = NoState
    /\ response = "none"
    /\ earlier = NoEarlier

\* the call is made and returns a score (per mille) or a string
Returns(fn, score, text) ==
    /\ fncall' = [fncall EXCEPT !.fn = fn, !.score = score, !.text = text]
    /\ UNCHANGED <<earlier, llm_client, entry, student_query, index, request, pc, srch, fz,
                   calls, wf, response>>

CallDobSimilarity ==
    /\ pc = "helper" /\ fncall.fn = "none"
    /\ Returns("_dob_similarity", dob_similarity(fncall.a, fncall.b), None)

CallPostalSimilarity ==
    /\ pc = "helper" /\ fncall.fn = "none"
    /\ Returns("_postal_similarity", postal_similarity(fncall.a, fncall.b), None)

CallMincodeSimilarity ==
    /\ pc = "helper" /\ fncall.fn = "none"
    /\ Returns("_mincode_similarity", mincode_similarity(fncall.a, fncall.b), None)

CallSexSimilarity ==
    /\ pc = "helper" /\ fncall.fn = "none"
    /\ Returns("_sex_similarity", sex_similarity(fncall.a, fncall.b), None)

CallNormalizeDob ==
    /\ pc = "helper" /\ fncall.fn = "none"
    /\ Returns("normalize_dob", -1, normalize_dob(fncall.a))

\* _build_mincode_prefix_range_filter returns a range predicate or None
CallBuildMincodeRange ==
    /\ pc = "helper" /\ fncall.fn = "none"
    /\ fncall' = [fncall EXCEPT !.fn = "_build_mincode_prefix_range_filter",
                                !.range = build_mincode_prefix_range_filter(OrEmpty(fncall.a))]
    /\ UNCHANGED <<earlier, llm_client, entry, student_query, index, request, pc, srch, fz,
                   calls, wf, response>>

NextHelpers ==
    \/ CallBuildMincodeRange
    \/ CallDobSimilarity
    \/ CallPostalSimilarity
    \/ CallMincodeSimilarity
    \/ CallSexSimilarity
    \/ CallNormalizeDob

SpecHelpers == InitHelpers /\ [][NextHelpers]_vars

\* ------------------------------------------------------------------------
\* Properties of the arbitration workflow
\* ------------------------------------------------------------------------
Ended == pc \in {"end", "done"}

\* the fetch node has run
FetchRan == wf.search_metadata.status # "unset"

AssistantCallAt == {i \in 1..Len(calls) : calls[i].svc = "assistant"}

AssistantCalls == Cardinality(AssistantCallAt)

\* the replies the assistant gave in this run
AssistantReplies == {calls[i].reply : i \in AssistantCallAt}

\* C1: in every run of the workflow the assistant is invoked exactly once
\* when fetch returned 2 or more candidates and never when it returned 0 or 1:
\* no call before the router has decided, at most one call ever, and at the
\* end one call for 2 or more candidates and none otherwise.
C1_AssistantOnceIffTwoOrMore ==
    /\ AssistantCalls <= 1
    /\ pc \notin {"end", "done"} => AssistantCalls = 0
    /\ (Ended /\ FetchRan) =>
           AssistantCalls = (IF Len(wf.candidates) >= 2 THEN 1 ELSE 0)

C1_Witness == pc = "done" /\ Len(wf.candidates) >= 2 /\ AssistantCalls = 1

\* the call failed: transport error, timeout, or a reply that is no JSON
FailedCall(r) == r.kind \in {"transport", "timeout", "unparseable"}

\* C2: if the assistant call fails (transport error, timeout, unparseable
\* reply) the workflow ends with NO_MATCH, confidence 0.0, no chosen candidate
\* and a single reason that carries the cause of the failure, and the failure
\* is not propagated (the workflow reports success and records a decision).
C2_FailureGivesFailSafeWithCause ==
    \A r \in AssistantReplies :
        (Ended /\ FailedCall(r)) =>
            /\ wf.final_decision = "NO_MATCH"
            /\ wf.confidence = 0
            /\ wf.analysis.chosen_candidate = <<>>
            /\ wf.selected_candidate = None
            /\ Len(wf.analysis.reasons) = 1
            /\ wf.analysis.reasons[1].cause = r.kind
            /\ (pc = "done" => response = "success")

\* the reply is an object that breaks the schema in one of the named ways
ViolatesSchema(r) ==
    /\ r.kind = "dict"
    /\ \/ r.extra # "none"
       \/ r.decision \notin {"CONFIRM", "REVIEW", "NO_MATCH"}
       \/ r.confidence < 0
       \/ r.confidence > 1000

\* C3: a reply that violates the schema (an extra key such as
\* ranked_candidates, a decision outside the three, a confidence outside
\* [0, 1]) is never passed through: the final decision is the fail-safe
\* NO_MATCH with confidence 0.0 and nothing of the reply is in the analysis.
C3_SchemaViolationGivesFailSafe ==
    \A r \in AssistantReplies :
        (Ended /\ ViolatesSchema(r)) =>
            /\ wf.final_decision = "NO_MATCH"
            /\ wf.confidence = 0
            /\ wf.analysis.decision = "NO_MATCH"
            /\ wf.analysis.confidence = 0
            /\ wf.analysis.chosen_candidate = <<>>
            /\ wf.analysis.review_candidates = <<>>
            /\ wf.selected_candidate = None

C3_Witness ==
    /\ pc = "done"
    /\ \E r \in AssistantReplies : r.extra = "ranked_candidates"
    /\ wf.final_decision = "NO_MATCH"

NoDuplicateIds(review) ==
    \A i, j \in 1..Len(review) : review[i].student_id = review[j].student_id => i = j

\* C4: in every final analysis whose decision is REVIEW, review_candidates
\* has at most 5 entries and no two of them carry the same identifier,
\* whatever schema-valid reply the assistant gave.
C4_ReviewAtMostFiveDistinct ==
    (Ended /\ wf.analysis.decision = "REVIEW") =>
        /\ Len(wf.analysis.review_candidates) <= 5
        /\ NoDuplicateIds(wf.analysis.review_candidates)

\* C5: in every final analysis the evidence agrees with the decision:
\* chosen_candidate and selected_candidate are non-null exactly when the
\* decision is CONFIRM, and review_candidates is empty unless it is REVIEW.
C5_EvidenceAgreesWithDecision ==
    (Ended /\ FetchRan) =>
        /\ wf.analysis.chosen_candidate # <<>> <=> wf.analysis.decision = "CONFIRM"
        /\ wf.selected_candidate # None <=> wf.final_decision = "CONFIRM"
        /\ wf.analysis.decision # "REVIEW" => wf.analysis.review_candidates = <<>>

\* C6: when the Match Classifier returned exactly one candidate the workflow
\* ends with CONFIRM, confidence 1.0 and selected_candidate equal to that
\* candidate's identifier, whichever outcome code came with it, and echoes
\* that candidate as chosen_candidate.
C6_SingleCandidateConfirmed ==
    (Ended /\ FetchRan /\ Len(wf.candidates) = 1) =>
        /\ wf.final_decision = "CONFIRM"
        /\ wf.confidence = 1000
        /\ wf.selected_candidate = wf.candidates[1]["student_id"]
        /\ wf.analysis.decision = "CONFIRM"
        /\ wf.analysis.confidence = 1000
        /\ Len(wf.analysis.chosen_candidate) = 1
        /\ wf.analysis.chosen_candidate[1]["student_id"] = wf.candidates[1]["student_id"]

C6_Witness ==
    /\ pc = "done"
    /\ Len(wf.candidates) = 1
    /\ wf.search_metadata.pen_status = "F1"
    /\ wf.final_decision = "CONFIRM"

\* C7: when the Match Classifier returned no candidate the workflow ends
\* with NO_MATCH, confidence 0.0, no chosen candidate and a non-empty
\* suspected_input_issues list, and the analyze step is never entered.
C7_NoCandidateNoMatch ==
    /\ (Ended /\ FetchRan /\ Len(wf.candidates) = 0) =>
           /\ wf.final_decision = "NO_MATCH"
           /\ wf.confidence = 0
           /\ wf.analysis.decision = "NO_MATCH"
           /\ wf.analysis.chosen_candidate = <<>>
           /\ wf.selected_candidate = None
           /\ Len(wf.analysis.suspected_input_issues) > 0
           /\ AssistantCalls = 0
           /\ ~wf.llm_used
    /\ pc = "analyze" => Len(wf.candidates) # 0

C7_Witness ==
    /\ pc = "done"
    /\ FetchRan
    /\ Len(wf.candidates) = 0
    /\ wf.search_metadata.pen_status = "C0"
    /\ wf.final_decision = "NO_MATCH"

\* ------------------------------------------------------------------------
\* Properties of the Match Classifier
\* ------------------------------------------------------------------------
\* the compared fields the query handed to search_students supplies
ComparedSupplied ==
    {f \in {compare_fields[i] : i \in 1..Len(compare_fields)} :
        request[f] # None /\ request[f] # <<>>}

\* search_students returned from the identifier branch
PenHit == srch.result.search_type = "pen_lookup"

\* the outcome code for the set M of matching fields among the supplied S
OutcomeFor(M, S) ==
    IF M = S THEN "AA"
    ELSE IF Cardinality(M) >= 2 THEN "BM"
    ELSE "F1"

\* supplied fields equal to the record's value when only case is ignored
MatchIgnoringCase(rec) ==
    {f \in ComparedSupplied : rec[f] # None /\ Upper(rec[f]) = Upper(request[f])}

\* supplied fields equal to the record's value when case and leading and
\* trailing whitespace are ignored
MatchTrimmedIgnoringCase(rec) ==
    {f \in ComparedSupplied :
        rec[f] # None /\ Upper(Strip(rec[f])) = Upper(Strip(request[f]))}

\* C8 as stated: on an identifier hit the outcome is ALL_MATCH if no other
\* compared field is supplied or every supplied one equals the record's value
\* case-insensitively, PARTIAL_MATCH if at least 2 but not all match, and
\* WEAK_MATCH if fewer than 2 match and not all match.
C8_OutcomeByCaseInsensitiveEquality ==
    PenHit =>
        srch.result.pen_status =
            OutcomeFor(MatchIgnoringCase(srch.result.results[1]), ComparedSupplied)

\* C8 amended: the same rule with equality taken after removing leading and
\* trailing whitespace from both values and ignoring case.
C8_OutcomeByTrimmedCaseInsensitiveEquality ==
    PenHit =>
        srch.result.pen_status =
            OutcomeFor(MatchTrimmedIgnoringCase(srch.result.results[1]), ComparedSupplied)

\* an identifier hit rated PARTIAL_MATCH where one of the matching fields is
\* written in another case than on record
C8_Witness ==
    /\ PenHit
    /\ srch.result.pen_status = "BM"
    /\ \E f \in MatchTrimmedIgnoringCase(srch.result.results[1]) :
           request[f] # srch.result.results[1][f]

IndexLookupAt == {i \in 1..Len(calls) : calls[i].op \in {"pen_lookup", "hard_filter"}}

FuzzyCallAt == {i \in 1..Len(calls) : calls[i].svc = "embedding" \/ calls[i].op = "vector"}

FuzzyStarted ==
    \/ pc \in {"fuzzy", "fuzzy_main", "fuzzy_sex_only", "fuzzy_no_filter"}
    \/ FuzzyCallAt # {}
    \/ srch.result.search_type = "fuzzy_match"

\* C9: the Fuzzy Resolver is started only after the identifier lookup, if
\* the query has an identifier, returned no record and the equality lookup
\* yielded no candidate; after an identifier hit the request returns at once
\* and neither the equality lookup nor the Fuzzy Resolver runs.
C9_FuzzyOnlyAfterEmptyLookups ==
    /\ FuzzyStarted =>
           /\ \A i \in IndexLookupAt : calls[i].count = 0
           /\ \A i \in IndexLookupAt : \A j \in FuzzyCallAt : i < j
           /\ Truthy(request["pen"]) => \E i \in IndexLookupAt : calls[i].op = "pen_lookup"
           /\ HardFilters(srch.query_no_pen) # <<>> =>
                  \E i \in IndexLookupAt : calls[i].op = "hard_filter"
    /\ \A i \in IndexLookupAt :
           (calls[i].op = "pen_lookup" /\ calls[i].count > 0) =>
               /\ PenHit
               /\ \A j \in 1..Len(calls) :
                      j > i => calls[j].svc \notin {"index", "embedding"}

\* a nearest-neighbour query issued after a stale identifier and an empty
\* equality lookup
C9_Witness ==
    /\ \E j \in FuzzyCallAt : calls[j].op = "vector"
    /\ \E i \in IndexLookupAt : calls[i].op = "pen_lookup"
    /\ \E i \in IndexLookupAt : calls[i].op = "hard_filter"

\* the identifier lookup ran and returned no record
PenMiss == calls # <<>> /\ calls[1].op = "pen_lookup" /\ calls[1].count = 0

\* C10: when an identifier is supplied but its lookup returns no record the
\* request does not fail there: it goes on to the equality lookup with the
\* query minus the identifier, every other field kept, and no equality
\* lookup ever carries an identifier predicate.
C10_StaleIdentifierDropped ==
    /\ \A i \in 1..Len(calls) :
           calls[i].op = "hard_filter" =>
               \A j \in 1..Len(calls[i].preds) : calls[i].preds[j][1] # "pen"
    /\ PenMiss =>
           /\ pc # "search_students"
           /\ Len(calls) = 1 => (pc # "search_raised" /\ response # "http500")
           /\ srch.query_no_pen = [k \in DOMAIN request |->
                                      IF k = "pen" THEN None ELSE request[k]]
           /\ (Len(calls) >= 2 /\ calls[2].op = "hard_filter") =>
                  \A f \in DOMAIN request :
                      (f # "pen" /\ f \in {hard_filter_fields[k] : k \in 1..Len(hard_filter_fields)}
                         /\ request[f] # None /\ request[f] # <<>>)
                          => \E j \in 1..Len(calls[2].preds) :
                                 calls[2].preds[j] = <<f, request[f]>>

\* the equality lookup issued after a stale identifier
C10_Witness ==
    /\ PenMiss
    /\ Len(calls) >= 2
    /\ calls[2].op = "hard_filter"
    /\ calls[2].preds # <<>>

\* ------------------------------------------------------------------------
\* Properties of the Exact Resolver
\* ------------------------------------------------------------------------
HardFilterCallAt == {i \in 1..Len(calls) : calls[i].op = "hard_filter"}

\* the compared fields of the query handed to search_students, the
\* identifier apart: names, date of birth, sex, postal code, institution
\* code, grade code, local id
SuppliedForLookup ==
    {f \in {compare_fields[i] : i \in 1..Len(compare_fields)} : Truthy(request[f])}

\* C11: the equality lookup has an equality predicate on every supplied
\* field other than the identifier (given, middle and family name, date of
\* birth, sex code, postal code, institution code, grade code, local id), so
\* every record it returns equals the query on every supplied field.
C11_EveryFieldConstrained ==
    /\ \A i \in HardFilterCallAt :
           \A f \in SuppliedForLookup :
               \E j \in 1..Len(calls[i].preds) : calls[i].preds[j] = <<f, request[f]>>
    /\ srch.result.search_type = "exact_match" =>
           \A k \in 1..Len(srch.result.results) :
               \A f \in SuppliedForLookup : srch.result.results[k][f] = request[f]

\* the index records that satisfy every predicate, in index order
MatchedSeq(preds) ==
    SelectSeq(index, LAMBDA rec : \A j \in 1..Len(preds) : rec[preds[j][1]] = preds[j][2])

\* a search result without the score the index attached
WithoutScore(rec) == [k \in select_fields |-> rec[k]]

\* C12: when the equality lookup matches n records with 1 <= n <= 40 the
\* outcome is SINGLE_EXACT for n = 1 and MULTIPLE_EXACT for 2 <= n <= 40, and
\* the candidate list holds exactly those n records.
C12_ExactOneToForty ==
    \A i \in HardFilterCallAt :
        LET m == MatchedSeq(calls[i].preds)
            n == Len(m)
        IN  (calls[i].ok /\ 1 <= n /\ n <= 40) =>
                /\ srch.result.search_type = "exact_match"
                /\ srch.result.pen_status = (IF n = 1 THEN "D1" ELSE "CM")
                /\ srch.result.count = n
                /\ Len(srch.result.results) = n
                /\ \A k \in 1..n : WithoutScore(srch.result.results[k]) = m[k]

C12_Witness ==
    /\ srch.result.search_type = "exact_match"
    /\ srch.result.pen_status = "CM"
    /\ Len(srch.result.results) > 2
    /\ Len(srch.result.results) < 40

\* C13: when the equality lookup matches 41 or more records the outcome is
\* NONE_OR_TOO_MANY with an empty candidate list and a message asking for a
\* narrower query, and the Fuzzy Resolver is not run; with exactly 40 matches
\* all 40 are returned as MULTIPLE_EXACT.
C13_TooManyAboveForty ==
    \A i \in HardFilterCallAt :
        LET n == Len(MatchedSeq(calls[i].preds))
        IN  calls[i].ok =>
                /\ n >= 41 =>
                       /\ srch.result.search_type = "exact_match"
                       /\ srch.result.pen_status = "C0"
                       /\ srch.result.results = <<>>
                       /\ srch.result.message = "over40"
                       /\ ~FuzzyStarted
                /\ n = 40 =>
                       /\ srch.result.pen_status = "CM"
                       /\ Len(srch.result.results) = 40

C13_Witness ==
    /\ srch.result.pen_status = "C0"
    /\ srch.result.message = "over40"
    /\ \E i \in HardFilterCallAt : Len(MatchedSeq(calls[i].preds)) > 41

\* ------------------------------------------------------------------------
\* Properties of the Fuzzy Resolver
\* ------------------------------------------------------------------------
\* the nearest-neighbour attempts made so far, in order
VectorCalls == SelectSeq(calls, LAMBDA c : c.op = "vector")

FuzzyReturned == srch.result.search_type = "fuzzy_match"

\* the identifiers of the index records that satisfy a filter
IdsSatisfying(f) == {index[i]["student_id"] : i \in {k \in 1..Len(index) : FilterHolds(index[k], f)}}

\* C14: in the fallback cascade a later filter is tried only if every
\* earlier attempt returned zero results, in the order combined filter,
\* sex-only filter (only if range predicates were used and sex was supplied),
\* no filter; each is tried at most once, and the candidates returned are
\* those of the first attempt that returned at least one result.
C14_CascadeOrder ==
    LET v == VectorCalls
    IN  /\ Len(v) <= 3
        /\ Len(v) >= 1 => v[1].filter = fz.filter_expr
        /\ \A j \in 2..Len(v) : \A k \in 1..(j - 1) : v[k].ok /\ v[k].count = 0
        /\ \A j, k \in 1..Len(v) : v[j].filter = v[k].filter => j = k
        /\ Len(v) >= 2 =>
               IF v[1].filter.ranges # <<>> /\ v[1].filter.sex # None
               THEN v[2].filter = [sex |-> v[1].filter.sex, ranges |-> <<>>]
               ELSE v[2].filter = NoFilter
        /\ Len(v) = 3 => v[3].filter = NoFilter
        /\ (FuzzyReturned /\ Len(v) >= 1) =>
               LET last == v[Len(v)]
                   res  == srch.result.results
               IN  /\ last.ok
                   /\ res # <<>> =>
                          /\ last.count > 0
                          /\ Len(res) = Min2(last.count, 20)
                          /\ {res[k]["student_id"] : k \in 1..Len(res)} \subseteq IdsSatisfying(last.filter)
                   /\ res = <<>> =>
                          /\ last.count = 0
                          /\ last.filter = NoFilter
                          /\ (v[1].filter.ranges # <<>> /\ v[1].filter.sex # None) => Len(v) = 3

\* the combined filter found nothing and the sex-only filter found a record
C14_Witness ==
    /\ FuzzyReturned
    /\ Len(VectorCalls) = 2
    /\ VectorCalls[1].count = 0
    /\ VectorCalls[2].filter.sex # None
    /\ VectorCalls[2].count > 0
    /\ srch.result.results # <<>>


\* the diagnostic entries agree with the attempts made, one for one and in
\* the order of execution
ListsAttempts(run, v) ==
    /\ Len(run) = Len(v)
    /\ \A j \in 1..Len(v) :
        /\ run[j].filter = v[j].filter
        /\ run[j].label = IF j = 1
                          THEN (IF v[1].filter # NoFilter THEN "OR-RANGE filter" ELSE "NO filter")
                          ELSE IF v[j].filter # NoFilter
                          THEN "SEX-ONLY fallback"
                          ELSE "NO-FILTER final fallback"

\* C15: the filters_run diagnostic of a fuzzy resolution lists exactly the
\* nearest-neighbour attempts that were executed, one entry per attempt and
\* in execution order; when every attempt returns zero the empty result
\* carries the full list of filters tried.
C15_FiltersRunListsAttempts ==
    /\ FuzzyReturned => ListsAttempts(srch.result.filters_run, VectorCalls)
    /\ pc \in {"fuzzy_sex_only", "fuzzy_no_filter"} => ListsAttempts(fz.filters_run, VectorCalls)

\* combined filter, sex-only filter and no filter were all tried and all
\* came back empty
C15_Witness ==
    /\ FuzzyReturned
    /\ srch.result.results = <<>>
    /\ Len(srch.result.filters_run) = 3
    /\ \A j \in 1..3 : VectorCalls[j].ok /\ VectorCalls[j].count = 0


\* the range predicates available for the normalised date of birth,
\* institution code and postal code of the query, in this order
AvailableRanges ==
    LET d == build_dob_month_range_filter(fz.q_dob)
        m == build_mincode_prefix_range_filter(fz.q_mincode)
        p == build_postal_fsa_range_filter(fz.q_postal)
    IN  (IF d # NoRange THEN <<d>> ELSE <<>>) \o (IF m # NoRange THEN <<m>> ELSE <<>>)
            \o (IF p # NoRange THEN <<p>> ELSE <<>>)

\* the records of the index of the queried sex (any, if none was supplied)
\* that lie in at least one of the ranges (any, if there is none)
InSomeRangeAndOfSex ==
    {i \in 1..Len(index) :
        /\ fz.q_sex # <<>> => index[i]["sexCode"] = fz.q_sex
        /\ AvailableRanges # <<>> =>
               \E j \in 1..Len(AvailableRanges) : RangeHolds(index[i], AvailableRanges[j])}

\* C16: the initial fuzzy filter joins the range predicates available for
\* date of birth, institution code and postal code by OR; if sex is supplied
\* the OR-block is ANDed with a sex equality predicate; with no range
\* predicate the filter is the sex predicate alone; with nothing supplied no
\* filter is used.
C16_InitialFilter ==
    Len(VectorCalls) >= 1 =>
        LET first == VectorCalls[1]
        IN  /\ first.filter.ranges = AvailableRanges
            /\ first.filter.sex = (IF fz.q_sex # <<>> THEN escape_filter_str(fz.q_sex) ELSE None)
            /\ (AvailableRanges = <<>> /\ fz.q_sex = <<>>) <=> first.filter = NoFilter
            /\ first.ok => first.count = Min2(Cardinality(InSomeRangeAndOfSex), top_k_vector)

\* a range predicate and the sex predicate together select a record
C16_Witness ==
    /\ Len(VectorCalls) >= 1
    /\ VectorCalls[1].filter.ranges # <<>>
    /\ VectorCalls[1].filter.sex # None
    /\ VectorCalls[1].ok
    /\ VectorCalls[1].count = 1


\* the vector similarity of a candidate plus 0.5 dob_sim + 0.3 mincode_sim
\* + 0.2 postal_sim + 0.1 sex_sim against the normalised query (per mille)
FinalScoreOf(cand) ==
    cand["@search.score"]
    + (5 * dob_similarity(fz.q_dob, cand["dob"])
       + 3 * mincode_similarity(fz.q_mincode, OrEmpty(cand["mincode"]))
       + 2 * postal_similarity(fz.q_postal, OrEmpty(cand["postalCode"]))
       + sex_similarity(fz.q_sex, OrEmpty(cand["sexCode"]))) \div 10

\* C17: the candidate list returned by the Fuzzy Resolver is ordered by
\* non-increasing final_score, where final_score is the vector similarity
\* plus 0.5 x dob_sim + 0.3 x institution_sim + 0.2 x postal_sim
\* + 0.1 x sex_sim; it has at most 20 entries, and no candidate left out has
\* a higher final_score than one that is kept.
C17_RankedTopTwenty ==
    (pc = "search_returned" /\ FuzzyReturned /\ srch.result.results # <<>>) =>
        LET res    == srch.result.results
            kept   == {res[k]["student_id"] : k \in 1..Len(res)}
            all    == fz.candidates
            lowest == res[Len(res)]["final_score"]
        IN  /\ Len(res) <= 20
            /\ Len(res) = Min2(Len(all), 20)
            /\ Cardinality(kept) = Len(res)
            /\ \A k \in 1..Len(res) :
                /\ \E c \in 1..Len(all) :
                    /\ all[c]["student_id"] = res[k]["student_id"]
                    /\ res[k]["@search.score"] = all[c]["@search.score"]
                /\ res[k]["final_score"] = FinalScoreOf(res[k])
            /\ \A k \in 1..(Len(res) - 1) : res[k]["final_score"] >= res[k + 1]["final_score"]
            /\ \A c \in 1..Len(all) :
                all[c]["student_id"] \notin kept => FinalScoreOf(all[c]) <= lowest

\* twenty of more than twenty candidates are kept, in another order than the index
\* returned them, and the index's second is among those left out
C17_Witness ==
    /\ pc = "search_returned"
    /\ FuzzyReturned
    /\ Len(srch.result.results) = 20
    /\ Len(fz.candidates) > 20
    /\ srch.result.results[2]["student_id"] # fz.candidates[2]["student_id"]
    /\ \A k \in 1..20 : srch.result.results[k]["student_id"] # fz.candidates[2]["student_id"]


\* the query handed to the Fuzzy Resolver has no given, middle or family
\* name under either spelling of the keys
NoNameSupplied ==
    \A k \in {"legalFirstName", "legalMiddleNames", "legalLastName",
              "givenName", "middleName", "surname"} :
        srch.query_no_pen[k] \in {None, <<>>}

\* C18: if the query has no non-empty given, middle or family name, the
\* Fuzzy Resolver returns zero candidates with a 'no embedding available'
\* diagnostic and issues neither an embedding request nor any
\* nearest-neighbour query.
C18_NoNameNoEmbedding ==
    (FuzzyStarted /\ NoNameSupplied) =>
        /\ FuzzyCallAt = {}
        /\ pc \notin {"fuzzy_main", "fuzzy_sex_only", "fuzzy_no_filter", "search_raised"}
        /\ pc # "fuzzy" =>
               /\ FuzzyReturned
               /\ srch.result.results = <<>>
               /\ srch.result.count = 0
               /\ srch.result.reason = "No name embedding available for fuzzy search"

\* a query of other fields only, found by no lookup, came back from the
\* Fuzzy Resolver
C18_Witness ==
    /\ NoNameSupplied
    /\ FuzzyReturned
    /\ \E i \in 1..Len(calls) : calls[i].op = "hard_filter" /\ calls[i].ok /\ calls[i].count = 0
    /\ srch.result.reason = "No name embedding available for fuzzy search"


\* the candidate list of the Fuzzy Resolver: the candidates of its last
\* attempt, ranked, the first twenty
FuzzyCandidateList ==
    Prefix(rank_with_light_scoring(fz.q_dob, fz.q_mincode, fz.q_postal, fz.q_sex, fz.candidates),
           FuzzyTop)

\* C19: when the Fuzzy Resolver is run, the outcome is NONE_OR_TOO_MANY with
\* an empty candidate list if it returned zero candidates, and otherwise
\* MULTIPLE_EXACT with exactly its candidate list, also when that list has a
\* single element.
C19_FuzzyOutcome ==
    /\ (FuzzyStarted /\ srch.result.status # "none") => FuzzyReturned
    /\ FuzzyReturned =>
        /\ srch.result.status = "success"
        /\ srch.result.results = FuzzyCandidateList
        /\ srch.result.count = Len(FuzzyCandidateList)
        /\ FuzzyCandidateList = <<>> => srch.result.pen_status = "C0"
        /\ FuzzyCandidateList # <<>> => srch.result.pen_status = "CM"

\* the Fuzzy Resolver returned one candidate
C19_Witness ==
    /\ FuzzyReturned
    /\ Len(FuzzyCandidateList) = 1
    /\ srch.result.pen_status = "CM"
    /\ Len(srch.result.results) = 1


\* C20: a failure or timeout of a nearest-neighbour index query inside the
\* Fuzzy Resolver is treated as that attempt returning zero results (the
\* cascade continues or an empty result is returned); it is never raised
\* out of the Fuzzy Resolver.
C20_VectorFailureIsZeroResults ==
    (\E i \in 1..Len(calls) : calls[i].op = "vector" /\ ~calls[i].ok) =>
        /\ pc # "search_raised"
        /\ response # "http500"
        /\ pc \notin {"fuzzy_main", "fuzzy_sex_only", "fuzzy_no_filter"} => FuzzyReturned


\* ------------------------------------------------------------------------
\* Properties of failure handling and of the order of calls
\* ------------------------------------------------------------------------
\* the index lookups of the Exact Resolver that failed
FailedLookupAt == {i \in IndexLookupAt : ~calls[i].ok}

\* C21: a failure of an index call in the Exact Resolver is treated as that
\* lookup returning zero results: a failed identifier lookup continues to
\* the equality-conjunction lookup, a failed equality-conjunction lookup
\* continues to the Fuzzy Resolver, and no error is returned.
C21_LookupFailureIsZeroResults ==
    \A i \in FailedLookupAt :
        /\ calls[i].count = 0
        /\ calls[i].op = "pen_lookup" =>
               /\ srch.result.search_type # "pen_lookup"
               /\ i = Len(calls) =>
                      \/ pc = "exact"
                      \/ HardFilters(srch.query_no_pen) = <<>> /\ FuzzyStarted
               /\ i < Len(calls) =>
                      \/ calls[i + 1].op = "hard_filter"
                      \/ HardFilters(srch.query_no_pen) = <<>> /\ (i + 1) \in FuzzyCallAt
        /\ calls[i].op = "hard_filter" =>
               /\ srch.result.search_type \notin {"pen_lookup", "exact_match"}
               /\ FuzzyStarted
               /\ i < Len(calls) => (i + 1) \in FuzzyCallAt
        /\ i = Len(calls) => (pc # "search_raised" /\ response # "http500")

\* the identifier lookup failed, the equality-conjunction lookup after it
\* failed too, and the Fuzzy Resolver returned candidates
C21_Witness ==
    /\ Len(calls) >= 3
    /\ calls[1].op = "pen_lookup" /\ ~calls[1].ok
    /\ calls[2].op = "hard_filter" /\ ~calls[2].ok
    /\ FuzzyReturned
    /\ srch.result.results # <<>>


\* some index, embedding or assistant call of the request failed
AnyCallFailed ==
    \E i \in 1..Len(calls) : ~calls[i].ok \/ FailedCall(calls[i].reply)

\* C22: no failure of an index, embedding or assistant call surfaces to the
\* end caller as an exception or error response: through both entry points
\* the request ends with a conservative outcome.
C22_NoFailureSurfaces ==
    AnyCallFailed =>
        /\ response \notin {"http500", "error_response"}
        /\ pc = "done" => response \in {"ok", "success"}
        /\ (pc = "done" /\ entry = "agent") => wf.analysis.decision # "unset"


\* the place of an external call in the order identifier lookup,
\* equality-conjunction lookup, embedding generation, nearest-neighbour
\* query, assistant call
StageOf(c) ==
    CASE c.op = "pen_lookup"   -> 1
      [] c.op = "hard_filter"  -> 2
      [] c.svc = "embedding"   -> 3
      [] c.op = "vector"       -> 4
      [] c.svc = "assistant"   -> 5
      [] OTHER                 -> 0

\* C23: within one request the external calls happen one after another in
\* the order identifier lookup, equality-conjunction lookup, embedding
\* generation, nearest-neighbour queries, assistant call; a call is started
\* only after every earlier call has returned, and whether it is started
\* depends on the earlier results.
C23_CallsOrderedAndConditioned ==
    /\ \A i \in 1..Len(calls) : StageOf(calls[i]) \in 1..5
    /\ \A i, j \in 1..Len(calls) :
        i < j => \/ StageOf(calls[i]) < StageOf(calls[j])
                 \/ StageOf(calls[i]) = 4 /\ StageOf(calls[j]) = 4
    /\ \A j \in 2..Len(calls) :
        LET c == calls[j]
            b == calls[j - 1]
        IN  /\ StageOf(c) \in {2, 3} => (StageOf(b) \in {1, 2} /\ b.count = 0)
            /\ StageOf(c) = 4 => \/ StageOf(b) = 3 /\ b.ok
                                 \/ StageOf(b) = 4 /\ b.ok /\ b.count = 0
            /\ StageOf(c) = 5 => (b.ok /\ b.count > 0)
    /\ \A j \in 1..Len(calls) :
        /\ StageOf(calls[j]) = 4 => j > 1
        /\ StageOf(calls[j]) = 5 =>
               /\ j > 1
               /\ srch.result.status = "success"
               /\ Len(srch.result.results) >= 2
               /\ Len(wf.candidates) >= 2

\* one request made all five kinds of call
C23_Witness ==
    /\ Len(calls) >= 5
    /\ \A k \in 1..5 : \E i \in 1..Len(calls) : StageOf(calls[i]) = k


\* what a call asks of its service
ArgumentsOf(c) == <<c.svc, c.op, c.preds, c.filter, c.text, c.payload>>

\* C24: within one request no external query is issued twice with the same
\* arguments: a failed or empty call is never repeated, and the filters
\* tried by the fuzzy fallback cascade are pairwise different.
C24_NoCallRepeated ==
    /\ \A i, j \in 1..Len(calls) : ArgumentsOf(calls[i]) = ArgumentsOf(calls[j]) => i = j
    /\ \A i, j \in 1..Len(VectorCalls) : VectorCalls[i].filter = VectorCalls[j].filter => i = j
    /\ \A k \in {1, 2, 3, 5} : Cardinality({i \in 1..Len(calls) : StageOf(calls[i]) = k}) <= 1

\* three nearest-neighbour queries came back empty, and lookups failed
\* before them
C24_Witness ==
    /\ Len(VectorCalls) = 3
    /\ \A j \in 1..3 : VectorCalls[j].count = 0
    /\ \E i \in 1..Len(calls) : StageOf(calls[i]) = 2 /\ ~calls[i].ok


Missing(v) == v \in {None, <<>>}

\* both strings have at least n characters and agree on the first n
ShareFirst(x, y, n) == Len(x) >= n /\ Len(y) >= n /\ \A i \in 1..n : x[i] = y[i]

\* C26: the postal-code scorer returns, after removing spaces and
\* upper-casing both values, 1.0 when they are equal, else 0.7 when both
\* have at least 3 characters and share the first 3, else 0.5 when both have
\* at least 2 and share the first 2, else 0.0; it returns 0.0 when either
\* value is missing.
C26_PostalScore ==
    fncall.fn = "_postal_similarity" =>
        IF Missing(fncall.a) \/ Missing(fncall.b) THEN fncall.score = 0
        ELSE LET x == Upper(NoSpaces(fncall.a))
                 y == Upper(NoSpaces(fncall.b))
             IN  fncall.score = CASE x = y               -> 1000
                                  [] x # y /\ ShareFirst(x, y, 3) -> 700
                                  [] x # y /\ ~ShareFirst(x, y, 3) /\ ShareFirst(x, y, 2) -> 500
                                  [] OTHER               -> 0

\* two postal codes written in different case and spacing scored as equal
C26_Witness ==
    /\ fncall.fn = "_postal_similarity"
    /\ fncall.a # fncall.b
    /\ Len(fncall.a) # Len(fncall.b)
    /\ fncall.score = 1000


\* a date of the calendar written YYYY-MM-DD
IsDay(v) ==
    /\ ~Missing(v)
    /\ Len(v) = 10
    /\ Strptime(v, TRUE) # <<>>
    /\ FormatDate(Strptime(v, TRUE)[1], Strptime(v, TRUE)[2], Strptime(v, TRUE)[3]) = v

\* C27: the date-of-birth scorer returns 1.0 when the two dates are the same
\* day, 0.7 when they differ but share year and month, 0.4 when they share
\* only the year, and 0.0 otherwise or when either value is missing.
C27_DobScore ==
    fncall.fn = "_dob_similarity" =>
        /\ (Missing(fncall.a) \/ Missing(fncall.b)) => fncall.score = 0
        /\ (IsDay(fncall.a) /\ IsDay(fncall.b)) =>
               LET x == Strptime(fncall.a, TRUE)
                   y == Strptime(fncall.b, TRUE)
               IN  fncall.score = CASE x = y                            -> 1000
                                    [] x # y /\ x[1] = y[1] /\ x[2] = y[2] -> 700
                                    [] x[1] = y[1] /\ x[2] # y[2]           -> 400
                                    [] OTHER                            -> 0

\* two days of the same month
C27_Witness ==
    /\ fncall.fn = "_dob_similarity"
    /\ IsDay(fncall.a) /\ IsDay(fncall.b)
    /\ fncall.a # fncall.b
    /\ fncall.score = 700


\* the score of two normalised institution codes
MincodeScoreOf(x, y) ==
    CASE x = y                                                   -> 1000
      [] x # y /\ ShareFirst(x, y, 4)                            -> 800
      [] x # y /\ ~ShareFirst(x, y, 4) /\ ShareFirst(x, y, 3)    -> 600
      [] OTHER                                                   -> 0

\* C28 as stated: the institution-code scorer returns, after stripping
\* leading zeros from both values, 1.0 when they are equal, else 0.8 when
\* they share the first 4 characters, else 0.6 when they share the first 3
\* characters, else 0.0; it returns 0.0 when either value is missing.
C28_MincodeScoreZerosStripped ==
    fncall.fn = "_mincode_similarity" =>
        IF Missing(fncall.a) \/ Missing(fncall.b) THEN fncall.score = 0
        ELSE fncall.score = MincodeScoreOf(LStripZeros(fncall.a), LStripZeros(fncall.b))

\* C28, amended: the institution-code scorer returns, after stripping
\* surrounding whitespace and then leading zeros from both values, 1.0 when
\* they are equal, else 0.8 when they share the first 4 characters, else 0.6
\* when they share the first 3 characters, else 0.0; it returns 0.0 when
\* either value is missing.
C28_MincodeScoreTrimmedZerosStripped ==
    fncall.fn = "_mincode_similarity" =>
        IF Missing(fncall.a) \/ Missing(fncall.b) THEN fncall.score = 0
        ELSE fncall.score = MincodeScoreOf(LStripZeros(Strip(fncall.a)),
                                           LStripZeros(Strip(fncall.b)))

\* a code padded with a blank scored as equal to the same code without its
\* leading zero
C28_Witness ==
    /\ fncall.fn = "_mincode_similarity"
    /\ ~Missing(fncall.a) /\ ~Missing(fncall.b)
    /\ fncall.a # Strip(fncall.a)
    /\ Strip(fncall.a) # fncall.b
    /\ IsDigits(fncall.b)
    /\ fncall.score = 1000


\* the score a scorer gives to two values
ScoreOf(fn, x, y) ==
    CASE fn = "_dob_similarity"     -> dob_similarity(x, y)
      [] fn = "_postal_similarity"  -> postal_similarity(x, y)
      [] fn = "_mincode_similarity" -> mincode_similarity(x, y)
      [] fn = "_sex_similarity"     -> sex_similarity(x, y)

\* C29: each field scorer (date of birth, postal code, institution code,
\* sex) is symmetric: for all pairs of string values a and b,
\* score(a, b) = score(b, a).
C29_ScorersSymmetric ==
    (/\ fncall.fn \in {"_dob_similarity", "_postal_similarity", "_mincode_similarity",
                       "_sex_similarity"}
     /\ fncall.a # None /\ fncall.b # None) =>
        fncall.score = ScoreOf(fncall.fn, fncall.b, fncall.a)


\* v spells a date of the calendar as YYYY-MM-DD
DashedDay(v) ==
    /\ Len(v) = 10 /\ v[5] = "-" /\ v[8] = "-"
    /\ IsDigits(SubSeq(v, 1, 4)) /\ IsDigits(SubSeq(v, 6, 7)) /\ IsDigits(SubSeq(v, 9, 10))
    /\ ValidDate(DecVal(SubSeq(v, 1, 4)), DecVal(SubSeq(v, 6, 7)), DecVal(SubSeq(v, 9, 10)))

\* YYYYMMDD written with dashes
WithDashes(v) == SubSeq(v, 1, 4) \o <<"-">> \o SubSeq(v, 5, 6) \o <<"-">> \o SubSeq(v, 7, 8)

\* v spells a date of the calendar as YYYYMMDD
CompactDay(v) == Len(v) = 8 /\ IsDigits(v) /\ DashedDay(WithDashes(v))

\* C30: date-of-birth normalisation accepts both spellings of a valid date,
\* YYYYMMDD and YYYY-MM-DD, and maps them to the same YYYY-MM-DD string; a
\* non-empty value that cannot be parsed is passed through as given instead
\* of raising or being dropped, and normalising an already normalised value
\* changes nothing.
C30_DobNormalised ==
    (fncall.fn = "normalize_dob" /\ ~Missing(fncall.a)) =>
        /\ DashedDay(fncall.a) => fncall.text = fncall.a
        /\ CompactDay(fncall.a) => fncall.text = WithDashes(fncall.a)
        /\ (~DashedDay(fncall.a) /\ ~CompactDay(fncall.a)) => fncall.text = fncall.a
        /\ normalize_dob(fncall.text) = fncall.text


\* ------------------------------------------------------------------------
\* Properties of degenerate queries, of the assistant's payload and of
\* repeated and respelled queries
\* ------------------------------------------------------------------------
\* the request leaves out the given name or the family name
LacksAName ==
    ~Truthy(student_query["legalFirstName"]) \/ ~Truthy(student_query["legalLastName"])

\* C31: a query that lacks the given name or the family name is not rejected:
\* the resolution stages still run with the fields that are present, and the
\* request ends with an outcome code and, in the workflow, with a decision.
C31_MissingNameStillResolved ==
    (pc = "done" /\ LacksAName) =>
        /\ response \notin {"error_response", "http500"}
        /\ srch.result.pen_status # "none"
        /\ entry = "agent" => wf.final_decision \in Decision


\* the allow-list as the payload spells it
PayloadKeys == (ALLOWED_CANDIDATE_FIELDS \ {"@search.score"}) \cup {"search_score"}

\* the candidate's field that a payload key stands for
CandidateKey(k) == IF k = "search_score" THEN "@search.score" ELSE k

\* C32: the payload handed to the decision assistant contains at most the
\* first 20 candidates of the Match Classifier's list, in their original
\* order, and each candidate in it carries only fields from the fixed
\* allow-list, with their values unchanged and null-valued fields left out.
C32_PayloadBoundedAndAllowListed ==
    \A n \in AssistantCallAt :
        LET payload == calls[n].payload
        IN  /\ Len(payload) <= 20
            /\ Len(payload) = Min2(20, Len(wf.candidates))
            /\ \A i \in 1..Len(payload) :
                /\ DOMAIN payload[i] \subseteq PayloadKeys
                /\ \A k \in DOMAIN payload[i] :
                    /\ CandidateKey(k) \in DOMAIN wf.candidates[i]
                    /\ payload[i][k] = wf.candidates[i][CandidateKey(k)]
                    /\ k \in select_fields => payload[i][k] # None
                /\ "student_id" \in DOMAIN payload[i]

\* the assistant is handed 20 of more than 20 candidates, the first of them
\* without the field whose value is null
C32_Witness ==
    \E n \in AssistantCallAt :
        /\ Len(calls[n].payload) = 20 /\ Len(wf.candidates) > 20
        /\ wf.candidates[1]["legalMiddleNames"] = None
        /\ "legalMiddleNames" \notin DOMAIN calls[n].payload[1]


\* whether each external call of the first and of the second call of
\* search_students came back
OksOfFirst == [i \in 1..earlier.ncalls |-> calls[i].ok]

OksOfSecond == [i \in 1..(Len(calls) - earlier.ncalls) |-> calls[earlier.ncalls + i].ok]

SecondCallEnded == earlier.made /\ pc \in {"search_returned", "search_raised"}

ChosenPrefix(v) ==
    IF Len(v) >= 6 THEN SubSeq(v, 1, 6)
    ELSE IF Len(v) >= 4 THEN SubSeq(v, 1, 4)
    ELSE SubSeq(v, 1, 3)

BeginsWith(code, p) == Len(code) >= Len(p) /\ SubSeq(code, 1, Len(p)) = p

\* the code lies in [lo, hi) under string ordering
InHalfOpenRange(code, lo, hi) == ~StrLess(code, lo) /\ StrLess(code, hi)

\* C34: for every institution code of length at least 3 whose chosen prefix p
\* (its first 6 characters, else first 4, else first 3) consists of digits
\* 0-9, the range predicate's upper bound is p+1 written with the same number
\* of characters as p, so that the half-open range [p, upper) under string
\* ordering contains exactly the codes that begin with p.
C34_MincodeRangeIsPrefixRange ==
    ( /\ fncall.fn = "_build_mincode_prefix_range_filter"
      /\ ~Missing(fncall.a) /\ Len(fncall.a) >= 3 /\ IsDigits(ChosenPrefix(fncall.a)) ) =>
        LET p == ChosenPrefix(fncall.a)
            r == fncall.range
        IN  /\ r.field = "mincode" /\ r.lo = p /\ r.hi # None
            /\ Len(r.hi) = Len(p) /\ IsDigits(r.hi) /\ DecVal(r.hi) = DecVal(p) + 1
            /\ ~Missing(fncall.b) =>
                   (InHalfOpenRange(fncall.b, r.lo, r.hi) <=> BeginsWith(fncall.b, p))


\* the name was embedded: the Fuzzy Resolver is past its first step
EmbeddingMade == \E i \in 1..Len(calls) : calls[i].svc = "embedding" /\ calls[i].ok

\* C35: building the fuzzy filter never fails on a malformed secondary field:
\* for every supplied postal code (including ones with fewer than 3
\* characters after removing spaces), every institution code and every
\* unparseable date of birth, the Fuzzy Resolver either builds a predicate
\* for the field or treats the field as absent, and goes on to the
\* nearest-neighbour query.
C35_FilterBuildingNeverFails ==
    EmbeddingMade => (pc = "fuzzy_main" \/ VectorCalls # <<>>)


\* ------------------------------------------------------------------------
\* The same date of birth written in both ways
\* ------------------------------------------------------------------------
\* YYYY-MM-DD written without dashes
WithoutDashes(v) == SubSeq(v, 1, 4) \o SubSeq(v, 6, 7) \o SubSeq(v, 9, 10)

\* requests to both entry points that supply a valid date of birth, written
\* with dashes or without
RespelledQueries ==
    LET dashed == {q \in WorkflowQueries : Truthy(q["dob"])}
    IN  dashed \cup {[q EXCEPT !["dob"] = WithoutDashes(@)] : q \in dashed}

\* a second request to the same entry point, equal to the first but for the
\* spelling of its date of birth, once search_students has returned for the
\* first
RespelledRequest ==
    /\ pc \in {"search_returned", "search_raised"}
    /\ ~earlier.made
    /\ earlier' = [ made |-> TRUE, ncalls |-> Len(calls), result |-> srch.result,
                    raised |-> pc = "search_raised" ]
    /\ student_query' = [student_query EXCEPT
                            !["dob"] = IF CompactDay(@) THEN WithDashes(@) ELSE WithoutDashes(@)]
    /\ request' = NoKeys
    /\ srch' = [query_no_pen |-> NoKeys, result |-> NoResult]
    /\ fz' = NoFuzzy
    /\ llm_client' = NoLLMClient
    /\ pc' = "endpoint"
    /\ UNCHANGED <<fncall, entry, index, calls, wf, response>>

NextRespelled ==
    \/ SearchEndpoint
    \/ AnalyzeEndpoint
    \/ PenLookup
    \/ NoPenSupplied
    \/ ExactMatch
    \/ GenerateEmbedding
    \/ VectorMain
    \/ VectorSexOnly
    \/ VectorNoFilter
    \/ RespelledRequest

SpecRespelled ==
    /\ InitWith({"search", "agent"}, RespelledQueries, {FixtureIndex(2, FALSE)})
    /\ [][NextRespelled]_vars

NoCallFailed == \A i \in 1..Len(calls) : calls[i].ok

\* C36: two requests that differ only in how the same valid date of birth is
\* written (YYYYMMDD versus YYYY-MM-DD) get the same outcome code and the
\* same candidate list against the same index, through the search endpoints
\* and through the arbitration workflow alike (no external call failing).
C36_SpellingOfDateImmaterial ==
    (SecondCallEnded /\ NoCallFailed) =>
        /\ pc = "search_returned" /\ ~earlier.raised
        /\ srch.result.pen_status = earlier.result.pen_status
        /\ srch.result.results = earlier.result.results


\* ------------------------------------------------------------------------
\* Properties of the outcome, of the chosen candidate and of termination
\* ------------------------------------------------------------------------
\* AA, BM, F1, D1, CM, C0: ALL_MATCH, PARTIAL_MATCH, WEAK_MATCH, SINGLE_EXACT,
\* MULTIPLE_EXACT, NONE_OR_TOO_MANY
OutcomeCodes == {"AA", "BM", "F1", "D1", "CM", "C0"}

\* the outcome code agrees with the size of the returned candidate list
CodeAgreesWithSize(r) ==
    LET n == Len(r.results)
    IN  CASE r.pen_status = "D1" -> n = 1
          [] r.pen_status = "C0" -> n = 0
          [] r.pen_status = "CM" ->
                IF r.search_type = "exact_match" THEN n >= 2 /\ n <= 40
                ELSE r.search_type = "fuzzy_match" /\ n >= 1 /\ n <= 20
          [] r.pen_status \in {"AA", "BM", "F1"} -> n \in {1, 2}
          [] OTHER -> FALSE

\* C37: every request gets exactly one outcome code from the fixed six, and
\* the code agrees with the size of the returned candidate list: SINGLE_EXACT
\* has exactly 1 candidate, NONE_OR_TOO_MANY has 0, MULTIPLE_EXACT has between
\* 2 and 40 from the exact stage or between 1 and 20 from the fuzzy stage, and
\* ALL_MATCH, PARTIAL_MATCH and WEAK_MATCH have 1 or 2.
C37_OneOutcomeCodeAgreeingWithSize ==
    /\ srch.result.pen_status # "none" => CodeAgreesWithSize(srch.result)
    /\ (pc = "done" /\ response # "error_response") =>
           srch.result.pen_status \in OutcomeCodes


\* the identifiers of the candidates the fetch node stored
FetchedIds == {wf.candidates[i]["student_id"] : i \in 1..Len(wf.candidates)}

\* C38: whenever the workflow ends with decision CONFIRM, the chosen
\* candidate is one of the candidates that the Match Classifier retrieved for
\* this request: its identifier occurs in the fetched candidate list.
C38_ConfirmedCandidateWasFetched ==
    (Ended /\ wf.final_decision = "CONFIRM" /\ wf.selected_candidate # None) =>
        wf.selected_candidate \in FetchedIds


\* the position of a step of the request in the order of the pipeline
StepRank(p) ==
    CASE p = "endpoint"        -> 0
      [] p = "search_students" -> 1
      [] p = "exact"           -> 2
      [] p = "fuzzy"           -> 3
      [] p = "fuzzy_main"      -> 4
      [] p = "fuzzy_sex_only"  -> 5
      [] p = "fuzzy_no_filter" -> 6
      [] p \in {"search_returned", "search_raised"} -> 7
      [] p = "router"          -> 8
      [] p = "analyze"         -> 9
      [] p = "end"             -> 10
      [] p = "done"            -> 11

CallsOf(op) == Cardinality({i \in 1..Len(calls) : calls[i].op = op})

\* the workflow was entered: the request was not rejected by its validation
Accepted == pc # "endpoint" /\ response # "error_response"

\* C39: every accepted request terminates: the workflow passes through fetch,
\* router and at most one analyze step, never revisits a step, and ends with
\* final_decision in {CONFIRM, REVIEW, NO_MATCH} after at most 7 external
\* calls (1 identifier lookup, 1 equality-conjunction lookup, 1 embedding, 3
\* nearest-neighbour queries, 1 assistant call), each external call
\* returning or failing.
C39_AcceptedRequestTerminates ==
    /\ <>(pc = "done")
    /\ [][StepRank(pc') > StepRank(pc)]_vars
    /\ []( /\ CallsOf("pen_lookup") <= 1 /\ CallsOf("hard_filter") <= 1
           /\ CallsOf("create") <= 1 /\ CallsOf("vector") <= 3
           /\ CallsOf("invoke") <= 1
           /\ Len(calls) <= 7
           /\ Len(calls) = CallsOf("pen_lookup") + CallsOf("hard_filter") + CallsOf("create")
                           + CallsOf("vector") + CallsOf("invoke") )
    /\ []((pc = "done" /\ Accepted) =>
            /\ FetchRan
            /\ wf.route = "end"
            /\ wf.final_decision \in Decision)

\* an accepted request that ended after all 7 external calls
C39_Witness ==
    /\ pc = "done" /\ Accepted /\ wf.final_decision \in Decision
    /\ Len(calls) = 7 /\ CallsOf("vector") = 3 /\ CallsOf("invoke") = 1

====
